---- MODULE Spec2Model ----
(***************************************************************************)
(* A model of the federated-learning simulator: the orchestration layer    *)
(* (training.py), the client/server endpoints (topology/cs_endpoint.py),   *)
(* the FedAVG worker round loop (worker/fed_avg_worker.py) and the         *)
(* Shapley-value server (server/multiround_shapley_value_server.py).       *)
(*                                                                         *)
(* Python's None is modelled by an explicit flag (is_none) or, for a task  *)
(* id, by NoTask.  A dict is a function whose DOMAIN is its key set.       *)
(***************************************************************************)
EXTENDS Integers, Sequences, FiniteSets, TLC

(***************************************************************************)
(* Bounds of the model.                                                    *)
(***************************************************************************)
MaxTrain == 1
NumProcs == 2
NumCallers == 2
TaskWorkers == 2

(***************************************************************************)
(* Program constants.                                                      *)
(***************************************************************************)
OpenFileLimit == 1024
NoTask == 0

VARIABLES
    \* ---- orchestration (training.py) ----
    tasks,          \* the module-level registry: task_id -> task record
    pools,          \* the TorchProcessPool built by each call of train
    topology,       \* per call of train: has its topology been built
    device_lock,    \* per call of train: has its device lock been built
    ncalls,         \* number of calls of train begun so far
    train_pc,       \* position of the running call of train
    train_call,     \* arguments and locals of the running call of train
    train_ret,      \* what the last call of train returned or raised
    gtr_pc,         \* per caller: position in get_training_result
    gtr_task,       \* per caller: the task_id argument
    gtr_local,      \* per caller: the locals task / results
    gtr_ret,        \* per caller: what the last call returned or raised
    pops,           \* history: successful tasks.pop per call of train
    issued,         \* history: the task record train registered per call
    \* ---- id remapping of get_training_result on drawn inputs ----
    remap_in,       \* the drawn tmp_stats, practitioner_ids, worker_number
    remap_out,      \* the stats returned for them
    \* ---- topology and endpoints (topology/cs_endpoint.py) ----
    to_worker,      \* per worker id: the FIFO channel server -> worker
    to_server,      \* per worker id: the FIFO channel worker -> server
    bcast,          \* the running call of ServerEndpoint.broadcast
    \* ---- MultiRoundShapleyValueServer ----
    choose_best_subset, \* config.algorithm_kwargs["choose_best_subset"]
    sv_algorithm,   \* the estimator: None, or its round number and tables
    sv_worker_data, \* the worker_data argument of _aggregate_worker_data
    sv_pc,          \* position inside _aggregate_worker_data
    sv_eval,        \* the estimator's running best subset of this compute
    sv_agg,         \* input and result of the final base aggregation
    sv_metric,      \* history: the last call of _get_subset_metric
    \* ---- the round protocol: FedAVGWorker against the server ----
    config,         \* round, distribute_init_parameters
    w_pc,           \* per worker: position in its round loop
    w_from,         \* per worker: the caller of get_result_from_server
    w_round,        \* per worker: _round_num
    w_stopped,      \* per worker: the private flag __stopped
    w_result,       \* per worker: the local result
    w_param,        \* per worker: the trainer's model parameters
    w_cache,        \* per worker: the cached parameter dict
    s_pc,           \* the server's state
    s_round,        \* the server's count of non-terminal broadcasts
    s_param,        \* the server's global parameters
    s_collected,    \* the server's messages of this round, by worker id
    w_skips,        \* history: skip signals a worker has received
    w_got_term,     \* history: a worker has received the termination message
    w_applied,      \* history: non-terminal results a worker has applied
    s_log,          \* history: the kinds of the server's broadcasts
    \* ---- one round's aggregation on updates in their arrival order ----
    ord_in,         \* choose_best_subset, best subset, worker_data as arrived
    ord_out,        \* the aggregate computed from it
    \* ---- a worker's outgoing update ----
    snd_in,         \* worker class, trained and cached parameters, mask
    snd_pc,         \* position between _get_sent_data and _aggretation
    snd_flag,       \* _send_parameter_diff
    snd_data,       \* sent_data
    snd_msg,        \* what send_data_to_server was given
    \* ---- one execution unit: start_executors ----
    unit_in,        \* the roles the unit hosts and the server's final state
    unit_roles,     \* per role: running, finished or failed
    unit_pc,        \* position in start_executors
    unit_res,       \* res
    \* ---- the placement of the roles of one task: train, lines 90-110 ----
    place_in,       \* worker_config: worker_map and server_config
    place_pc,       \* position in train
    place_next,     \* the process index the loop of line 101 is at
    place_pool,     \* the pool: initargs and the calls handed to exec
    place_units     \* per started unit: its lock, topology and roles

task_vars == <<tasks, pools, topology, device_lock, ncalls, train_pc,
               train_call, train_ret, gtr_pc, gtr_task, gtr_local, gtr_ret,
               pops, issued>>

remap_vars == <<remap_in, remap_out>>

ep_vars == <<to_worker, to_server, bcast>>

sv_vars == <<choose_best_subset, sv_algorithm, sv_worker_data, sv_pc,
             sv_eval, sv_agg, sv_metric>>

chan_vars == <<to_worker, to_server>>

proto_vars == <<config, w_pc, w_from, w_round, w_stopped, w_result, w_param,
                w_cache, s_pc, s_round, s_param, s_collected, w_skips,
                w_got_term, w_applied, s_log>>

order_vars == <<ord_in, ord_out>>

send_vars == <<snd_in, snd_pc, snd_flag, snd_data, snd_msg>>

unit_vars == <<unit_in, unit_roles, unit_pc, unit_res>>

place_vars == <<place_in, place_pc, place_next, place_pool, place_units>>

vars == <<task_vars, remap_vars, ep_vars, sv_vars, proto_vars, order_vars,
          send_vars, unit_vars, place_vars>>

\* what the actions of one part of the model leave alone
TaskFrame == UNCHANGED <<remap_vars, ep_vars, sv_vars, proto_vars, order_vars,
        send_vars, unit_vars,
        place_vars>>
RemapFrame == UNCHANGED <<task_vars, ep_vars, sv_vars, proto_vars, order_vars,
        send_vars, unit_vars,
        place_vars>>
EpFrame == UNCHANGED <<task_vars, remap_vars, sv_vars, proto_vars, order_vars,
        send_vars, unit_vars,
        place_vars>>
SvFrame == UNCHANGED <<task_vars, remap_vars, ep_vars, proto_vars, order_vars,
        send_vars, unit_vars,
        place_vars>>
ProtoFrame == UNCHANGED <<task_vars, remap_vars, sv_vars, bcast, order_vars,
        send_vars, unit_vars,
        place_vars>>
PlaceFrame == UNCHANGED <<task_vars, remap_vars, ep_vars, sv_vars, proto_vars,
        order_vars, send_vars, unit_vars>>
UnitFrame == UNCHANGED <<task_vars, remap_vars, ep_vars, sv_vars, proto_vars,
        order_vars, send_vars,
        place_vars>>
SendFrame == UNCHANGED <<task_vars, remap_vars, ep_vars, sv_vars, proto_vars,
        order_vars, unit_vars,
        place_vars>>
OrderFrame == UNCHANGED <<task_vars, remap_vars, ep_vars, sv_vars, proto_vars,
        send_vars, unit_vars,
        place_vars>>

Calls == 1..MaxTrain
Procs == 0..(NumProcs - 1)
Callers == 1..NumCallers

(***************************************************************************)
(* Dicts.                                                                  *)
(***************************************************************************)
EmptyDict == [k \in {} |-> 0]

\* a |= b : key union, b's value wins on a key both hold
DictUpdate(a, b) ==
    [k \in (DOMAIN a) \cup (DOMAIN b) |-> IF k \in DOMAIN b THEN b[k] ELSE a[k]]

\* tasks.pop(task_id) on a present key
DictRemove(d, key) == [k \in (DOMAIN d) \ {key} |-> d[k]]

\* sorted(s) of a finite set of integers, smallest first
RECURSIVE SortedSeq(_)
SortedSeq(s) ==
    IF s = {} THEN <<>>
    ELSE LET m == CHOOSE x \in s : \A y \in s : x <= y
         IN  <<m>> \o SortedSeq(s \ {m})

Min(a, b) == IF a <= b THEN a ELSE b

(***************************************************************************)
(* training.py: get_training_result, lines 129-150.                        *)
(***************************************************************************)
NonePids == [is_none |-> TRUE, ids |-> {}]
SomePids(s) == [is_none |-> FALSE, ids |-> s]

\* for result in results: tmp_stats |= result
RECURSIVE MergeResults(_)
MergeResults(results) ==
    IF results = <<>> THEN EmptyDict
    ELSE DictUpdate(MergeResults(SubSeq(results, 1, Len(results) - 1)),
                    results[Len(results)])

\* zip(sorted(practitioner_ids), range(config.worker_number)) as a sequence
\* of pairs <<practitioner_id, worker_id>>; zip stops at the shorter input
ZipMutUnsorted(practitioner_ids, worker_number) ==
    LET s == SortedSeq(practitioner_ids)
        n == Len(s)
        m == Min(n, worker_number)
    IN  [i \in 1..m |-> <<s[n + 1 - i], i - 1>>]

ZipIds(practitioner_ids, worker_number) ==
    LET s == SortedSeq(practitioner_ids)
        m == Min(Len(s), worker_number)
    IN  [i \in 1..m |-> <<s[i], i - 1>>]

\* sv_dict[round][practitioner_id] = tmp_sv_dict[worker_id]
RemapRound(tmp_sv_dict, practitioner_ids, worker_number) ==
    LET z == ZipIds(practitioner_ids, worker_number)
    IN  [p \in {z[i][1] : i \in DOMAIN z} |->
            tmp_sv_dict[z[CHOOSE i \in DOMAIN z : z[i][1] = p][2]]]

RemapStats(tmp_stats, practitioner_ids, worker_number) ==
    IF practitioner_ids.is_none THEN tmp_stats
    ELSE [k \in DOMAIN tmp_stats |->
            IF k # "sv" THEN tmp_stats[k]
            ELSE [round \in DOMAIN tmp_stats[k] |->
                    RemapRound(tmp_stats[k][round], practitioner_ids.ids,
                               worker_number)]]

(***************************************************************************)
(* Inputs of the orchestration model.                                      *)
(***************************************************************************)
TaskConfig == [worker_number |-> TaskWorkers]

\* the practitioner_ids argument of train
TaskPids == {NonePids, SomePids({7, 3})}

\* the host: whether os has sysconf, and os.sysconf("SC_OPEN_MAX")
Hosts ==
    { [has_sysconf |-> TRUE, open_max |-> OpenFileLimit],
      [has_sysconf |-> TRUE, open_max |-> OpenFileLimit + 1],
      [has_sysconf |-> FALSE, open_max |-> OpenFileLimit] }

\* the Shapley table a server unit may return: round -> worker id -> value
TaskSvTable == [round \in {1} |-> [w \in 0..(TaskWorkers - 1) |-> 10 * (w + 1)]]

\* what start_executors may return for the unit of process index 0
ServerUnitResults ==
    { [k \in {"acc"} |-> 1],
      [k \in {"sv", "acc"} |-> IF k = "sv" THEN TaskSvTable ELSE 1] }

\* worker_config["worker_map"]: one entry per process index
WorkerMapKeys == Procs

NoPool == [created |-> FALSE, scheduled |-> {}, finished |-> {},
           stops |-> 0, results |-> [u \in Procs |-> EmptyDict]]

IdleCall == [non_blocking |-> FALSE, practitioner_ids |-> NonePids,
             open_max |-> OpenFileLimit + 1, has_sysconf |-> FALSE,
             task_id |-> NoTask, next_idx |-> 0]

NoTaskRecord == [process_pool |-> 0, practitioner_ids |-> NonePids,
                 config |-> TaskConfig]

NoLocals == [task |-> NoTaskRecord, results |-> <<>>]

RetNone == [kind |-> "none", stats |-> EmptyDict]
RetNotCalled == [kind |-> "not called", stats |-> EmptyDict]
RetStats(st) == [kind |-> "stats", stats |-> st]
RetRaised(e) == [kind |-> e, stats |-> EmptyDict]

TaskInit ==
    /\ tasks = EmptyDict
    /\ pools = [c \in Calls |-> NoPool]
    /\ topology = [c \in Calls |-> FALSE]
    /\ device_lock = [c \in Calls |-> FALSE]
    /\ ncalls = 0
    /\ train_pc = "idle"
    /\ train_call = IdleCall
    /\ train_ret = [kind |-> "none", task_id |-> NoTask]
    /\ gtr_pc = [c \in Callers |-> "idle"]
    /\ gtr_task = [c \in Callers |-> NoTask]
    /\ gtr_local = [c \in Callers |-> NoLocals]
    /\ gtr_ret = [c \in Callers |-> RetNotCalled]
    /\ pops = [c \in Calls |-> 0]
    /\ issued = [c \in Calls |-> NoTaskRecord]

(***************************************************************************)
(* The process pool (TorchProcessPool): exec schedules a unit, a unit      *)
(* finishes on its own, wait(timeout) tells whether all have, stop()       *)
(* waits for them and returns their results in the order scheduled.        *)
(***************************************************************************)
PoolDone(c) == pools[c].finished = pools[c].scheduled

PoolResults(c) == [i \in 1..NumProcs |-> pools[c].results[i - 1]]

UnitFinish(c, u) ==
    /\ pools[c].created
    /\ u \in pools[c].scheduled \ pools[c].finished
    /\ \E r \in (IF u = 0 THEN ServerUnitResults ELSE {EmptyDict}) :
          pools' = [pools EXCEPT ![c].finished = @ \cup {u},
                                 ![c].results[u] = r]
    /\ UNCHANGED <<tasks, topology, device_lock, ncalls, train_pc, train_call,
                   train_ret, gtr_pc, gtr_task, gtr_local, gtr_ret, pops,
                   issued>>
    /\ TaskFrame

(***************************************************************************)
(* training.py: train, lines 75-119.                                       *)
(***************************************************************************)
\* the caller enters train with its arguments
TrainBegin ==
    /\ train_pc \in {"idle", "returned", "raised"}
    /\ ncalls < MaxTrain
    /\ ncalls' = ncalls + 1
    /\ \E nb \in BOOLEAN, pids \in TaskPids, host \in Hosts :
          train_call' = [non_blocking |-> nb, practitioner_ids |-> pids,
                         open_max |-> host.open_max,
                         has_sysconf |-> host.has_sysconf,
                         task_id |-> NoTask, next_idx |-> 0]
    /\ train_pc' = "check"
    /\ UNCHANGED <<tasks, pools, topology, device_lock, train_ret, gtr_pc,
                   gtr_task, gtr_local, gtr_ret, pops, issued>>
    /\ TaskFrame

\* lines 80-86: if hasattr(os, "sysconf") ... value <= 1024: raise
OpenFileLimitTooSmallMutLt(call) ==
    call.has_sysconf /\ call.open_max < OpenFileLimit

OpenFileLimitTooSmall(call) ==
    call.has_sysconf /\ call.open_max <= OpenFileLimit

TrainCheck ==
    /\ train_pc = "check"
    /\ IF OpenFileLimitTooSmall(train_call)
       THEN /\ train_pc' = "raised"
            /\ train_ret' = [kind |-> "RuntimeError", task_id |-> NoTask]
       ELSE /\ train_pc' = "setup"
            /\ UNCHANGED train_ret
    /\ UNCHANGED <<tasks, pools, topology, device_lock, ncalls, train_call,
                   gtr_pc, gtr_task, gtr_local, gtr_ret, pops, issued>>
    /\ TaskFrame

\* lines 87-99: topology, device lock, task id, process pool
TrainSetup ==
    /\ train_pc = "setup"
    /\ topology' = [topology EXCEPT ![ncalls] = TRUE]
    /\ device_lock' = [device_lock EXCEPT ![ncalls] = TRUE]
    /\ train_call' = [train_call EXCEPT
                        !.task_id = IF train_call.non_blocking
                                    THEN ncalls ELSE NoTask]
    /\ pools' = [pools EXCEPT ![ncalls].created = TRUE]
    /\ train_pc' = "exec"
    /\ UNCHANGED <<tasks, ncalls, train_ret, gtr_pc, gtr_task, gtr_local,
                   gtr_ret, pops, issued>>
    /\ TaskFrame

\* lines 101-110: one process_pool.exec per entry of the worker map
TrainExec ==
    /\ train_pc = "exec"
    /\ train_call.next_idx \in WorkerMapKeys
    /\ pools' = [pools EXCEPT ![ncalls].scheduled = @ \cup {train_call.next_idx}]
    /\ train_call' = [train_call EXCEPT !.next_idx = @ + 1]
    /\ UNCHANGED <<tasks, topology, device_lock, ncalls, train_pc, train_ret,
                   gtr_pc, gtr_task, gtr_local, gtr_ret, pops, issued>>
    /\ TaskFrame

\* lines 111-113: process_pool.stop(); return None
TrainStop ==
    /\ train_pc = "exec"
    /\ train_call.next_idx \notin WorkerMapKeys
    /\ ~train_call.non_blocking
    /\ PoolDone(ncalls)
    /\ pools' = [pools EXCEPT ![ncalls].stops = @ + 1]
    /\ train_pc' = "returned"
    /\ train_ret' = [kind |-> "none", task_id |-> NoTask]
    /\ UNCHANGED <<tasks, topology, device_lock, ncalls, train_call, gtr_pc,
                   gtr_task, gtr_local, gtr_ret, pops, issued>>
    /\ TaskFrame

\* lines 114-119: tasks[task_id] = {...}; return task_id
NewTaskRecordMutNoPids(c, call) ==
    [process_pool |-> c, practitioner_ids |-> NonePids, config |-> TaskConfig]

NewTaskRecord(c, call) ==
    [process_pool |-> c, practitioner_ids |-> call.practitioner_ids,
     config |-> TaskConfig]

TrainRegister ==
    /\ train_pc = "exec"
    /\ train_call.next_idx \notin WorkerMapKeys
    /\ train_call.non_blocking
    /\ tasks' = DictUpdate(tasks,
                   [k \in {train_call.task_id} |-> NewTaskRecord(ncalls, train_call)])
    /\ issued' = [issued EXCEPT ![ncalls] = NewTaskRecord(ncalls, train_call)]
    /\ train_pc' = "returned"
    /\ train_ret' = [kind |-> "id", task_id |-> train_call.task_id]
    /\ UNCHANGED <<pools, topology, device_lock, ncalls, train_call, gtr_pc,
                   gtr_task, gtr_local, gtr_ret, pops>>
    /\ TaskFrame

(***************************************************************************)
(* training.py: get_training_result, lines 122-150.  The registry is a     *)
(* plain module-level dict: callers in different threads interleave at     *)
(* every line.                                                             *)
(***************************************************************************)
\* the task ids train has returned so far
IssuedIds == {t \in Calls : issued[t].process_pool # 0}

\* line 123: task = tasks[task_id]
GtrLookup(c) ==
    /\ gtr_pc[c] = "idle"
    /\ \E t \in IssuedIds :
          /\ gtr_task' = [gtr_task EXCEPT ![c] = t]
          /\ IF t \in DOMAIN tasks
             THEN /\ gtr_local' = [gtr_local EXCEPT ![c] =
                                      [task |-> tasks[t], results |-> <<>>]]
                  /\ gtr_pc' = [gtr_pc EXCEPT ![c] = "wait"]
                  /\ gtr_ret' = [gtr_ret EXCEPT ![c] = RetRaised("running")]
             ELSE /\ gtr_local' = [gtr_local EXCEPT ![c] = NoLocals]
                  /\ gtr_pc' = [gtr_pc EXCEPT ![c] = "idle"]
                  /\ gtr_ret' = [gtr_ret EXCEPT ![c] = RetRaised("KeyError@lookup")]
    /\ UNCHANGED <<tasks, pools, topology, device_lock, ncalls, train_pc,
                   train_call, train_ret, pops, issued>>
    /\ TaskFrame

\* line 125: if not process_pool.wait(timeout=timeout)
WaitFailedMutNeg(pool) == PoolDone(pool)

WaitFailed(pool) == ~PoolDone(pool)

\* lines 125-126: return None on timeout
GtrWait(c) ==
    /\ gtr_pc[c] = "wait"
    /\ IF WaitFailed(gtr_local[c].task.process_pool)
       THEN /\ gtr_pc' = [gtr_pc EXCEPT ![c] = "idle"]
            /\ gtr_ret' = [gtr_ret EXCEPT ![c] = RetNone]
            /\ gtr_local' = [gtr_local EXCEPT ![c] = NoLocals]
       ELSE /\ gtr_pc' = [gtr_pc EXCEPT ![c] = "pop"]
            /\ UNCHANGED <<gtr_ret, gtr_local>>
    /\ UNCHANGED <<tasks, pools, topology, device_lock, ncalls, train_pc,
                   train_call, train_ret, gtr_task, pops, issued>>
    /\ TaskFrame

\* line 127: tasks.pop(task_id), a KeyError when the key is gone
GtrPop(c) ==
    /\ gtr_pc[c] = "pop"
    /\ IF gtr_task[c] \in DOMAIN tasks
       THEN /\ tasks' = DictRemove(tasks, gtr_task[c])
            /\ pops' = [pops EXCEPT ![gtr_local[c].task.process_pool] = @ + 1]
            /\ gtr_pc' = [gtr_pc EXCEPT ![c] = "stop"]
            /\ UNCHANGED <<gtr_ret, gtr_local>>
       ELSE /\ gtr_pc' = [gtr_pc EXCEPT ![c] = "idle"]
            /\ gtr_ret' = [gtr_ret EXCEPT ![c] = RetRaised("KeyError@pop")]
            /\ gtr_local' = [gtr_local EXCEPT ![c] = NoLocals]
            /\ UNCHANGED <<tasks, pops>>
    /\ UNCHANGED <<pools, topology, device_lock, ncalls, train_pc, train_call,
                   train_ret, gtr_task, issued>>
    /\ TaskFrame

\* line 128: results = process_pool.stop()
GtrStop(c) ==
    /\ gtr_pc[c] = "stop"
    /\ LET pool == gtr_local[c].task.process_pool
       IN  /\ PoolDone(pool)
           /\ pools' = [pools EXCEPT ![pool].stops = @ + 1]
           /\ gtr_local' = [gtr_local EXCEPT ![c].results = PoolResults(pool)]
    /\ gtr_pc' = [gtr_pc EXCEPT ![c] = "merge"]
    /\ UNCHANGED <<tasks, topology, device_lock, ncalls, train_pc, train_call,
                   train_ret, gtr_task, gtr_ret, pops, issued>>
    /\ TaskFrame

\* lines 129-150: merge the units' results, remap the ids, return stats
TrainingStats(locals) ==
    RemapStats(MergeResults(locals.results), locals.task.practitioner_ids,
               locals.task.config.worker_number)

GtrReturn(c) ==
    /\ gtr_pc[c] = "merge"
    /\ gtr_ret' = [gtr_ret EXCEPT ![c] = RetStats(TrainingStats(gtr_local[c]))]
    /\ gtr_local' = [gtr_local EXCEPT ![c] = NoLocals]
    /\ gtr_pc' = [gtr_pc EXCEPT ![c] = "idle"]
    /\ UNCHANGED <<tasks, pools, topology, device_lock, ncalls, train_pc,
                   train_call, train_ret, gtr_task, pops, issued>>
    /\ TaskFrame

(***************************************************************************)
(* The id remapping on drawn inputs.                                       *)
(***************************************************************************)
WorkerNum == 2
SvWorkerNum == 3
MaxSvRounds == 2
MaxMailbox == 2
MaxRemapWorkers == 3
MaxRemapRounds == 2
PractitionerIds == {3, 7, 9, 12}

\* Shapley tables over worker ids 0..n-1: distinct values per worker
\* (ascending or descending in the worker id), or one common value
RemapSvTables(n) ==
    { [round \in 1..MaxRemapRounds |-> [w \in 0..(n - 1) |-> 10 * round + w]],
      [round \in 1..MaxRemapRounds |-> [w \in 0..(n - 1) |-> 10 * round + (n - w)]],
      [round \in 1..MaxRemapRounds |-> [w \in 0..(n - 1) |-> 10 * round]] }

RemapTmpStats(n) ==
    { [k \in {"acc"} |-> 5] } \cup
    { [k \in {"sv", "acc"} |-> IF k = "sv" THEN tb ELSE 5] : tb \in RemapSvTables(n) }

RemapInputs ==
    UNION { { [tmp_stats |-> st, practitioner_ids |-> p, worker_number |-> n] :
                st \in RemapTmpStats(n),
                p \in {NonePids} \cup {SomePids(ids) : ids \in SUBSET PractitionerIds} }
            : n \in 1..MaxRemapWorkers }

NoRemapInput == [tmp_stats |-> EmptyDict, practitioner_ids |-> NonePids,
                 worker_number |-> 0]

RemapIdle ==
    /\ remap_in = NoRemapInput
    /\ remap_out = [done |-> FALSE, stats |-> EmptyDict]

RemapInit ==
    /\ remap_in \in RemapInputs
    /\ remap_out = [done |-> FALSE, stats |-> EmptyDict]

\* get_training_result, lines 132-150, applied to the drawn input
RemapApply ==
    /\ ~remap_out.done
    /\ remap_out' = [done |-> TRUE,
                     stats |-> RemapStats(remap_in.tmp_stats,
                                          remap_in.practitioner_ids,
                                          remap_in.worker_number)]
    /\ UNCHANGED remap_in
    /\ RemapFrame

(***************************************************************************)
(* The topology (one FIFO channel pair per worker id) and the endpoints,   *)
(* topology/cs_endpoint.py.                                                *)
(***************************************************************************)
WorkerIds == 0..(WorkerNum - 1)

\* CentralTopology.send_to_worker / get_from_server / server_has_data
SendToWorker(chan, data, worker_id) ==
    [chan EXCEPT ![worker_id] = Append(@, data)]

ServerHasData(chan, worker_id) == chan[worker_id] # <<>>

\* ServerEndpoint.broadcast, lines 27-31: the worker ids that get a send
BroadcastTargetsMutNoIntersect(worker_ids) ==
    IF worker_ids.is_none THEN WorkerIds ELSE worker_ids.ids

BroadcastTargets(worker_ids) ==
    LET all_worker_ids == WorkerIds
    IN  IF worker_ids.is_none THEN all_worker_ids
        ELSE worker_ids.ids \cap all_worker_ids

\* ServerEndpoint.broadcast as one step: a send to each target
RECURSIVE BroadcastAll(_, _, _)
BroadcastAll(chan, data, targets) ==
    IF targets = {} THEN chan
    ELSE LET worker_id == CHOOSE w \in targets : TRUE
         IN  BroadcastAll(SendToWorker(chan, data, worker_id), data,
                          targets \ {worker_id})

\* the messages and worker id arguments the endpoint model draws
EpData == {"a", "b"}
EpIdArgs ==
    {NonePids} \cup {SomePids(ids) : ids \in SUBSET (0..WorkerNum)}

NoBcast == [pc |-> "idle", data |-> "a", worker_ids |-> NonePids,
            pending |-> {}, sends |-> [w \in WorkerIds |-> 0]]

EpInit ==
    /\ to_worker = [w \in WorkerIds |-> <<>>]
    /\ to_server = [w \in WorkerIds |-> <<>>]
    /\ bcast = NoBcast

\* lines 27-31: the caller enters broadcast(data, worker_ids)
BroadcastBegin ==
    /\ bcast.pc \in {"idle", "done"}
    /\ \A w \in WorkerIds : Len(to_worker[w]) < MaxMailbox
    /\ \E data \in EpData, worker_ids \in EpIdArgs :
          bcast' = [pc |-> "loop", data |-> data, worker_ids |-> worker_ids,
                    pending |-> BroadcastTargets(worker_ids),
                    sends |-> [w \in WorkerIds |-> 0]]
    /\ UNCHANGED <<to_worker, to_server>>
    /\ EpFrame

\* lines 32-33: self.send(data, worker_id) for the next worker id; a
\* worker id the topology has no channel for is an error of the topology
BroadcastSend ==
    /\ bcast.pc = "loop"
    /\ \E worker_id \in bcast.pending :
          IF worker_id \in WorkerIds
          THEN /\ to_worker' = SendToWorker(to_worker, bcast.data, worker_id)
               /\ bcast' = [bcast EXCEPT !.pending = @ \ {worker_id},
                                          !.sends[worker_id] = @ + 1]
          ELSE /\ bcast' = [bcast EXCEPT !.pc = "error"]
               /\ UNCHANGED to_worker
    /\ UNCHANGED to_server
    /\ EpFrame

\* the loop of lines 32-33 is over
BroadcastEnd ==
    /\ bcast.pc = "loop"
    /\ bcast.pending = {}
    /\ bcast' = [bcast EXCEPT !.pc = "done"]
    /\ UNCHANGED <<to_worker, to_server>>
    /\ EpFrame

\* ClientEndpoint.get, lines 46-47, of the worker with this id
ClientGet(worker_id) ==
    /\ ServerHasData(to_worker, worker_id)
    /\ to_worker' = [to_worker EXCEPT ![worker_id] = Tail(@)]
    /\ UNCHANGED <<to_server, bcast>>
    /\ EpFrame

EpNext ==
    \/ BroadcastBegin
    \/ BroadcastSend
    \/ BroadcastEnd
    \/ \E w \in WorkerIds : ClientGet(w)

(***************************************************************************)
(* server/multiround_shapley_value_server.py.  The estimator              *)
(* (MultiRoundShapleyValue) is an external library: compute() advances     *)
(* its round number, calls the metric function on subsets of worker ids    *)
(* and records, keyed by round, the Shapley values of the best subset.     *)
(***************************************************************************)
SvWorkerIds == 0..(SvWorkerNum - 1)

\* the values get_metric may give an aggregate
Scores == {0, 1}

\* the update worker w contributes to a round
SvUpdate(w) == [dataset_size |-> w + 1, parameter |-> 2 * w + 1]

\* worker_data: worker id -> update, of the workers that sent one
SvWorkerData ==
    { [w \in ws |-> SvUpdate(w)] : ws \in (SUBSET SvWorkerIds) \ {{}} }

\* {k: v for k, v in worker_data.items() if k in subset}
Restrict(worker_data, subset) ==
    [k \in (DOMAIN worker_data) \cap subset |-> worker_data[k]]

RECURSIVE Gcd(_, _)
Gcd(a, b) == IF b = 0 THEN a ELSE Gcd(b, a % b)

RECURSIVE WeightedSum(_, _)
WeightedSum(worker_data, ks) ==
    IF ks = {} THEN [num |-> 0, den |-> 0]
    ELSE LET k == CHOOSE x \in ks : TRUE
             rest == WeightedSum(worker_data, ks \ {k})
         IN  [num |-> rest.num
                        + worker_data[k].dataset_size * worker_data[k].parameter,
              den |-> rest.den + worker_data[k].dataset_size]

\* FedAVGServer._aggregate_worker_data: the dataset-size-weighted mean of
\* the parameters, as a fraction in lowest terms; no mean of no update
BaseAggregate(worker_data) ==
    LET ws == WeightedSum(worker_data, DOMAIN worker_data)
        g == Gcd(ws.num, ws.den)
    IN  IF ws.den = 0 THEN [ok |-> FALSE, num |-> 0, den |-> 0]
        ELSE [ok |-> TRUE, num |-> ws.num \div g, den |-> ws.den \div g]

NoEval == [best |-> {}, best_score |-> 0, full_score |-> -1]
NoAgg == [input |-> EmptyDict, result |-> [ok |-> FALSE, num |-> 0, den |-> 0]]
NoMetricCall == [called |-> FALSE, subset_empty |-> FALSE, raised |-> FALSE,
                 aggregated_empty |-> FALSE, returned |-> FALSE]
NoEstimator == [is_none |-> TRUE, round_number |-> 0,
                shapley_values_S |-> EmptyDict]

\* __init__, lines 11-17
SvIdle ==
    /\ choose_best_subset = FALSE
    /\ sv_algorithm = NoEstimator
    /\ sv_worker_data = EmptyDict
    /\ sv_pc = "idle"
    /\ sv_eval = NoEval
    /\ sv_agg = NoAgg
    /\ sv_metric = NoMetricCall

SvInit ==
    /\ choose_best_subset \in BOOLEAN
    /\ sv_algorithm = NoEstimator
    /\ sv_worker_data = EmptyDict
    /\ sv_pc = "idle"
    /\ sv_eval = NoEval
    /\ sv_agg = NoAgg
    /\ sv_metric = NoMetricCall

\* lines 19-30: _aggregate_worker_data is called with the round's
\* worker_data, builds the estimator on first use, sets its metric
\* function and enters compute(), which starts the estimator's next round
SvAggregateBegin ==
    /\ sv_pc \in {"idle", "aggregated"}
    /\ sv_algorithm.round_number < MaxSvRounds
    /\ \E worker_data \in SvWorkerData : sv_worker_data' = worker_data
    /\ sv_algorithm' = [sv_algorithm EXCEPT !.is_none = FALSE,
                                            !.round_number = @ + 1]
    /\ sv_eval' = NoEval
    /\ sv_agg' = NoAgg
    /\ sv_metric' = NoMetricCall
    /\ sv_pc' = "compute"
    /\ UNCHANGED choose_best_subset
    /\ SvFrame

\* _get_subset_metric, lines 41-43: the subset's share of worker_data,
\* which the assert requires to be non-empty
SubsetDataMutDropsAssert(subset, worker_data) ==
    [ok |-> TRUE, data |-> Restrict(worker_data, subset)]

SubsetData(subset, worker_data) ==
    LET data == Restrict(worker_data, subset)
    IN  [ok |-> data # EmptyDict, data |-> data]

\* the estimator calls the metric function on a subset: lines 41-46.  The
\* score is get_metric of the subset's base aggregate, an evaluation this
\* model draws; the estimator keeps the first subset of the best score
\* seen in this compute, and the score of the full set (-1: not seen)
SvEvaluate ==
    /\ sv_pc = "compute"
    /\ \E subset \in (SUBSET SvWorkerIds) \ {{}} :
          LET sd == SubsetData(subset, sv_worker_data)
              agg == BaseAggregate(sd.data)
          IN  /\ sv_metric' =
                    [called |-> TRUE,
                     subset_empty |-> Restrict(sv_worker_data, subset) = EmptyDict,
                     raised |-> ~sd.ok \/ ~agg.ok,
                     aggregated_empty |-> sd.ok /\ sd.data = EmptyDict,
                     returned |-> sd.ok /\ agg.ok]
              /\ IF ~sd.ok \/ ~agg.ok
                 THEN /\ sv_pc' = "error"
                      /\ UNCHANGED sv_eval
                 ELSE /\ UNCHANGED sv_pc
                      /\ \E score \in Scores :
                            LET better ==
                                    \/ sv_eval.best = {}
                                    \/ score > sv_eval.best_score
                            IN  sv_eval' =
                                  [best |-> IF better THEN subset
                                            ELSE sv_eval.best,
                                   best_score |-> IF better THEN score
                                                  ELSE sv_eval.best_score,
                                   full_score |-> IF subset = SvWorkerIds
                                                  THEN score
                                                  ELSE sv_eval.full_score]
    /\ UNCHANGED <<choose_best_subset, sv_algorithm, sv_worker_data, sv_agg>>
    /\ SvFrame

\* compute() returns: shapley_values_S[round_number] holds a value for
\* each worker of the best subset
SvComputeEnd ==
    /\ sv_pc = "compute"
    /\ sv_algorithm' =
          [sv_algorithm EXCEPT !.shapley_values_S =
              DictUpdate(@, [r \in {sv_algorithm.round_number} |->
                                [w \in sv_eval.best |-> 0]])]
    /\ sv_pc' = "computed"
    /\ UNCHANGED <<choose_best_subset, sv_worker_data, sv_eval, sv_agg,
                   sv_metric>>
    /\ SvFrame

\* lines 31-37: the worker_data handed to the base aggregation
FinalWorkerDataMutComplement(choose, estimator, worker_data) ==
    LET best_subset ==
            DOMAIN estimator.shapley_values_S[estimator.round_number]
    IN  IF choose /\ best_subset # {}
        THEN Restrict(worker_data, (DOMAIN worker_data) \ best_subset)
        ELSE worker_data

FinalWorkerData(choose, estimator, worker_data) ==
    LET best_subset ==
            DOMAIN estimator.shapley_values_S[estimator.round_number]
    IN  IF choose /\ best_subset # {}
        THEN Restrict(worker_data, best_subset)
        ELSE worker_data

\* lines 31-39: choose the subset, return super()._aggregate_worker_data
SvAggregateEnd ==
    /\ sv_pc = "computed"
    /\ LET data == FinalWorkerData(choose_best_subset, sv_algorithm,
                                   sv_worker_data)
           result == BaseAggregate(data)
       IN  /\ sv_agg' = [input |-> data, result |-> result]
           /\ sv_pc' = IF result.ok THEN "aggregated" ELSE "error"
    /\ UNCHANGED <<choose_best_subset, sv_algorithm, sv_worker_data, sv_eval,
                   sv_metric>>
    /\ SvFrame

SvNext ==
    \/ SvAggregateBegin
    \/ SvEvaluate
    \/ SvComputeEnd
    \/ SvAggregateEnd

(***************************************************************************)
(* The round protocol.  The worker is worker/fed_avg_worker.py; its base   *)
(* classes (Client, Worker, AggregationWorker, ModelCache) and the server  *)
(* (FedAVGServer and its bases) are not among the source files and follow  *)
(* the specification's sections 4.2 and 4.3.                               *)
(***************************************************************************)
MaxRound == 2


\* what local training may add to the parameters
TrainDeltas == {0, 1}

\* server -> worker: None (the skip signal), {"parameter": p}, or
\* {"end_training": True}
SkipSignal == [kind |-> "none", parameter |-> 0]
ResultMsg(p) == [kind |-> "result", parameter |-> p]
EndTraining == [kind |-> "end_training", parameter |-> 0]

\* worker -> server: None, or {"parameter_diff": d, "dataset_size": n}
SkipUpdate == [kind |-> "none", parameter_diff |-> 0, dataset_size |-> 0]
UpdateMsg(d, n) == [kind |-> "update", parameter_diff |-> d, dataset_size |-> n]

\* trainer.dataset_size of a worker
DatasetSize(w) == w + 1

\* CentralTopology.send_to_server / get_from_worker / worker_has_data
SendToServer(chan, worker_id, data) ==
    [chan EXCEPT ![worker_id] = Append(@, data)]

WorkerHasData(chan, worker_id) == chan[worker_id] # <<>>

Configs ==
    [round : 1..MaxRound, distribute_init_parameters : BOOLEAN]

ProtoIdle ==
    /\ config = [round |-> 1, distribute_init_parameters |-> FALSE]
    /\ w_pc = [w \in WorkerIds |-> "start"]
    /\ w_from = [w \in WorkerIds |-> "none"]
    /\ w_round = [w \in WorkerIds |-> 1]
    /\ w_stopped = [w \in WorkerIds |-> FALSE]
    /\ w_result = [w \in WorkerIds |-> SkipSignal]
    /\ w_param = [w \in WorkerIds |-> 0]
    /\ w_cache = [w \in WorkerIds |-> 0]
    /\ s_pc = "init"
    /\ s_round = 0
    /\ s_param = 0
    /\ s_collected = EmptyDict
    /\ w_skips = [w \in WorkerIds |-> 0]
    /\ w_got_term = [w \in WorkerIds |-> FALSE]
    /\ w_applied = [w \in WorkerIds |-> 0]
    /\ s_log = <<>>

ProtoInit ==
    /\ config \in Configs
    /\ w_pc = [w \in WorkerIds |-> "start"]
    /\ w_from = [w \in WorkerIds |-> "none"]
    /\ w_round = [w \in WorkerIds |-> 1]
    /\ w_stopped = [w \in WorkerIds |-> FALSE]
    /\ w_result = [w \in WorkerIds |-> SkipSignal]
    /\ w_param = [w \in WorkerIds |-> 0]
    /\ w_cache = [w \in WorkerIds |-> 0]
    /\ s_pc = "init"
    /\ s_round = 0
    /\ s_param = 0
    /\ s_collected = EmptyDict
    /\ w_skips = [w \in WorkerIds |-> 0]
    /\ w_got_term = [w \in WorkerIds |-> FALSE]
    /\ w_applied = [w \in WorkerIds |-> 0]
    /\ s_log = <<>>

(***************************************************************************)
(* worker/fed_avg_worker.py: FedAVGWorker.                                 *)
(***************************************************************************)
\* the base classes' _stopped(): the specification gives a worker no stop
\* condition but the termination message
BaseStopped(w) == FALSE

\* _stopped, lines 31-32: super()._stopped() or self.__stopped
WorkerStoppedMutRoundBudget(w) ==
    w_round[w] > config.round \/ w_stopped[w]

WorkerStopped(w) == BaseStopped(w) \/ w_stopped[w]

WorkerBeforeTrainingMutNoGate(w) ==
    /\ w_pc[w] = "start"
    /\ w_pc' = [w_pc EXCEPT ![w] = "train"]
    /\ UNCHANGED <<config, w_from, w_round, w_stopped, w_result, w_param,
                   w_cache, s_pc, s_round, s_param, s_collected, w_skips,
                   w_got_term, w_applied, s_log, chan_vars>>
    /\ ProtoFrame

\* _before_training, lines 19-25
WorkerBeforeTraining(w) ==
    /\ w_pc[w] = "start"
    /\ IF config.distribute_init_parameters
       THEN /\ w_pc' = [w_pc EXCEPT ![w] = "await"]
            /\ w_from' = [w_from EXCEPT ![w] = "before_training"]
       ELSE /\ w_pc' = [w_pc EXCEPT ![w] = "train"]
            /\ UNCHANGED w_from
    /\ UNCHANGED <<config, w_round, w_stopped, w_result, w_param, w_cache,
                   s_pc, s_round, s_param, s_collected, w_skips, w_got_term,
                   w_applied, s_log, chan_vars>>
    /\ ProtoFrame

\* get_result_from_server, line 36: result = super().get_result_from_server(),
\* which blocks until ClientEndpoint.get has a message of the server
WorkerGet(w) ==
    /\ w_pc[w] = "await"
    /\ ServerHasData(to_worker, w)
    /\ w_result' = [w_result EXCEPT ![w] = Head(to_worker[w])]
    /\ to_worker' = [to_worker EXCEPT ![w] = Tail(@)]
    /\ w_pc' = [w_pc EXCEPT ![w] = "got"]
    /\ w_skips' = [w_skips EXCEPT ![w] =
                     IF Head(to_worker[w]).kind = "none" THEN @ + 1 ELSE @]
    /\ w_got_term' = [w_got_term EXCEPT ![w] =
                        @ \/ Head(to_worker[w]).kind = "end_training"]
    /\ UNCHANGED <<config, w_from, w_round, w_stopped, w_param, w_cache, s_pc,
                   s_round, s_param, s_collected, w_applied, s_log, to_server>>
    /\ ProtoFrame

\* line 39: self._round_num += 1
NextRoundNumMutTwice(n) == n + 2

NextRoundNum(n) == n + 1

\* lines 37-39: the result is None
WorkerSkipCount(w) ==
    /\ w_pc[w] = "got"
    /\ w_result[w].kind = "none"
    /\ w_round' = [w_round EXCEPT ![w] = NextRoundNum(@)]
    /\ w_pc' = [w_pc EXCEPT ![w] = "skip_send"]
    /\ UNCHANGED <<config, w_from, w_stopped, w_result, w_param, w_cache, s_pc,
                   s_round, s_param, s_collected, w_skips, w_got_term,
                   w_applied, s_log, chan_vars>>
    /\ ProtoFrame

WorkerSkipSendMutTwice(w) ==
    /\ w_pc[w] = "skip_send"
    /\ to_server' = SendToServer(SendToServer(to_server, w, SkipUpdate),
                                 w, SkipUpdate)
    /\ w_pc' = [w_pc EXCEPT ![w] = "await"]
    /\ UNCHANGED <<config, w_from, w_round, w_stopped, w_result, w_param,
                   w_cache, s_pc, s_round, s_param, s_collected, w_skips,
                   w_got_term, w_applied, s_log, to_worker>>
    /\ ProtoFrame

WorkerSkipSendMutSilent(w) ==
    /\ w_pc[w] = "skip_send"
    /\ w_pc' = [w_pc EXCEPT ![w] = "await"]
    /\ UNCHANGED <<config, w_from, w_round, w_stopped, w_result, w_param,
                   w_cache, s_pc, s_round, s_param, s_collected, w_skips,
                   w_got_term, w_applied, s_log, chan_vars>>
    /\ ProtoFrame

\* lines 40-43: send_data_to_server(None); break if stopped, else continue.
\* After the break the call returns and the worker's loop, finding it
\* stopped, ends
WorkerSkipSend(w) ==
    /\ w_pc[w] = "skip_send"
    /\ to_server' = SendToServer(to_server, w, SkipUpdate)
    /\ w_pc' = [w_pc EXCEPT ![w] = IF WorkerStopped(w) THEN "ended" ELSE "await"]
    /\ UNCHANGED <<config, w_from, w_round, w_stopped, w_result, w_param,
                   w_cache, s_pc, s_round, s_param, s_collected, w_skips,
                   w_got_term, w_applied, s_log, to_worker>>
    /\ ProtoFrame

\* load_result_from_server, line 62: "end_training" in result
IsEndTrainingMutNever(result) == FALSE

IsEndTraining(result) == result.kind = "end_training"

WorkerLoadMutIgnoresEnd(w) ==
    /\ w_pc[w] = "got"
    /\ w_result[w].kind # "none"
    /\ IF IsEndTraining(w_result[w])
       THEN /\ w_pc' = [w_pc EXCEPT ![w] = "await"]
            /\ UNCHANGED <<w_stopped, w_param, w_cache, w_applied>>
       ELSE /\ w_param' = [w_param EXCEPT ![w] = w_result[w].parameter]
            /\ w_cache' = [w_cache EXCEPT ![w] = w_result[w].parameter]
            /\ w_applied' = [w_applied EXCEPT ![w] = @ + 1]
            /\ w_pc' = [w_pc EXCEPT ![w] = "train"]
            /\ UNCHANGED w_stopped
    /\ w_from' = [w_from EXCEPT ![w] = "none"]
    /\ UNCHANGED <<config, w_round, w_result, s_pc, s_round, s_param,
                   s_collected, w_skips, w_got_term, s_log, chan_vars>>
    /\ ProtoFrame

WorkerLoadMutNoCache(w) ==
    /\ w_pc[w] = "got"
    /\ w_result[w].kind # "none"
    /\ IF IsEndTraining(w_result[w])
       THEN /\ w_stopped' = [w_stopped EXCEPT ![w] = TRUE]
            /\ w_pc' = [w_pc EXCEPT ![w] = "stopped"]
            /\ UNCHANGED <<w_param, w_cache, w_applied>>
       ELSE /\ w_param' = [w_param EXCEPT ![w] = w_result[w].parameter]
            /\ w_applied' = [w_applied EXCEPT ![w] = @ + 1]
            /\ w_pc' = [w_pc EXCEPT ![w] = "train"]
            /\ UNCHANGED <<w_stopped, w_cache>>
    /\ w_from' = [w_from EXCEPT ![w] = "none"]
    /\ UNCHANGED <<config, w_round, w_result, s_pc, s_round, s_param,
                   s_collected, w_skips, w_got_term, s_log, chan_vars>>
    /\ ProtoFrame

\* lines 44-45 and load_result_from_server, lines 61-66: the termination
\* message sets __stopped and raises StopExecutingException; any other
\* result is loaded and cached, and the call returns to training
WorkerLoad(w) ==
    /\ w_pc[w] = "got"
    /\ w_result[w].kind # "none"
    /\ IF IsEndTraining(w_result[w])
       THEN /\ w_stopped' = [w_stopped EXCEPT ![w] = TRUE]
            /\ w_pc' = [w_pc EXCEPT ![w] = "stopped"]
            /\ UNCHANGED <<w_param, w_cache, w_applied>>
       ELSE /\ w_param' = [w_param EXCEPT ![w] = w_result[w].parameter]
            /\ w_cache' = [w_cache EXCEPT ![w] = w_result[w].parameter]
            /\ w_applied' = [w_applied EXCEPT ![w] = @ + 1]
            /\ w_pc' = [w_pc EXCEPT ![w] = "train"]
            /\ UNCHANGED w_stopped
    /\ w_from' = [w_from EXCEPT ![w] = "none"]
    /\ UNCHANGED <<config, w_round, w_result, s_pc, s_round, s_param,
                   s_collected, w_skips, w_got_term, s_log, chan_vars>>
    /\ ProtoFrame

\* the local trainer runs one round
WorkerTrain(w) ==
    /\ w_pc[w] = "train"
    /\ \E delta \in TrainDeltas :
          w_param' = [w_param EXCEPT ![w] = @ + delta]
    /\ w_pc' = [w_pc EXCEPT ![w] = "send"]
    /\ UNCHANGED <<config, w_from, w_round, w_stopped, w_result, w_cache, s_pc,
                   s_round, s_param, s_collected, w_skips, w_got_term,
                   w_applied, s_log, chan_vars>>
    /\ ProtoFrame

\* _get_sent_data, lines 56-59, and _aggretation, lines 47-54: the diff
\* against the cached parameters is sent with the dataset size
SentData(w) == UpdateMsg(w_param[w] - w_cache[w], DatasetSize(w))

WorkerSend(w) ==
    /\ w_pc[w] = "send"
    /\ to_server' = SendToServer(to_server, w, SentData(w))
    /\ w_pc' = [w_pc EXCEPT ![w] = "await"]
    /\ w_from' = [w_from EXCEPT ![w] = "aggretation"]
    /\ UNCHANGED <<config, w_round, w_stopped, w_result, w_param, w_cache,
                   s_pc, s_round, s_param, s_collected, w_skips, w_got_term,
                   w_applied, s_log, to_worker>>
    /\ ProtoFrame

(***************************************************************************)
(* The server's round state machine (specification, section 4.3).          *)
(***************************************************************************)
\* the result goes to the workers selected for the next round, the skip
\* signal to the others
SendRound(chan, result, selected) ==
    BroadcastAll(BroadcastAll(chan, result, BroadcastTargets(SomePids(selected))),
                 SkipSignal, WorkerIds \ selected)

Selections == (SUBSET WorkerIds) \ {{}}

\* Initializing: the initial parameters are the first broadcast
ServerStart ==
    /\ s_pc = "init"
    /\ IF config.distribute_init_parameters
       THEN /\ \E selected \in Selections :
                 to_worker' = SendRound(to_worker, ResultMsg(s_param), selected)
            /\ s_round' = s_round + 1
            /\ s_log' = Append(s_log, "result")
       ELSE UNCHANGED <<to_worker, s_round, s_log>>
    /\ s_pc' = "collect"
    /\ UNCHANGED <<config, w_pc, w_from, w_round, w_stopped, w_result, w_param,
                   w_cache, s_param, s_collected, w_skips, w_got_term,
                   w_applied, to_server>>
    /\ ProtoFrame

\* CollectingUpdates: ServerEndpoint.get of a worker whose message is there
ServerCollect(w) ==
    /\ s_pc = "collect"
    /\ w \notin DOMAIN s_collected
    /\ WorkerHasData(to_server, w)
    /\ s_collected' = DictUpdate(s_collected, [k \in {w} |-> Head(to_server[w])])
    /\ to_server' = [to_server EXCEPT ![w] = Tail(@)]
    /\ UNCHANGED <<config, w_pc, w_from, w_round, w_stopped, w_result, w_param,
                   w_cache, s_pc, s_round, s_param, w_skips, w_got_term,
                   w_applied, s_log, to_worker>>
    /\ ProtoFrame

\* the aggregation input: the updates that are not skip notifications,
\* each diff added to the previous global parameters
RoundWorkerData ==
    [w \in {v \in DOMAIN s_collected : s_collected[v].kind = "update"} |->
        [dataset_size |-> s_collected[w].dataset_size,
         parameter |-> s_param + s_collected[w].parameter_diff]]

\* Aggregating: the weighted mean, kept when no update came
Aggregated ==
    LET r == BaseAggregate(RoundWorkerData)
    IN  IF r.ok THEN r.num \div r.den ELSE s_param

\* Aggregating and Broadcasting while the round budget lasts
ServerBroadcast ==
    /\ s_pc = "collect"
    /\ DOMAIN s_collected = WorkerIds
    /\ s_round < config.round
    /\ s_param' = Aggregated
    /\ \E selected \in Selections :
          to_worker' = SendRound(to_worker, ResultMsg(Aggregated), selected)
    /\ s_round' = s_round + 1
    /\ s_log' = Append(s_log, "result")
    /\ s_collected' = EmptyDict
    /\ UNCHANGED <<config, w_pc, w_from, w_round, w_stopped, w_result, w_param,
                   w_cache, s_pc, w_skips, w_got_term, w_applied, to_server>>
    /\ ProtoFrame

\* Broadcasting once the round budget is exhausted: the termination message
ServerTerminate ==
    /\ s_pc = "collect"
    /\ DOMAIN s_collected = WorkerIds
    /\ s_round >= config.round
    /\ to_worker' = BroadcastAll(to_worker, EndTraining, BroadcastTargets(NonePids))
    /\ s_log' = Append(s_log, "end_training")
    /\ s_collected' = EmptyDict
    /\ s_pc' = "terminated"
    /\ UNCHANGED <<config, w_pc, w_from, w_round, w_stopped, w_result, w_param,
                   w_cache, s_round, s_param, w_skips, w_got_term, w_applied,
                   to_server>>
    /\ ProtoFrame

Next ==
    \/ \E w \in WorkerIds : WorkerBeforeTraining(w)
    \/ \E w \in WorkerIds : WorkerGet(w)
    \/ \E w \in WorkerIds : WorkerSkipCount(w)
    \/ \E w \in WorkerIds : WorkerSkipSend(w)
    \/ \E w \in WorkerIds : WorkerLoad(w)
    \/ \E w \in WorkerIds : WorkerTrain(w)
    \/ \E w \in WorkerIds : WorkerSend(w)
    \/ ServerStart
    \/ \E w \in WorkerIds : ServerCollect(w)
    \/ ServerBroadcast
    \/ ServerTerminate

(***************************************************************************)
(* One round's aggregation with worker_data as the dict it is: its items   *)
(* are in insertion order, the order in which the updates arrived.         *)
(***************************************************************************)
\* worker_data.items() of the updates of distinct workers, as they arrived
Arrivals ==
    { items \in UNION { [1..n -> SvWorkerIds] : n \in 1..SvWorkerNum } :
         \A i, j \in 1..Len(items) : items[i] = items[j] => i = j }

ItemKeys(items) == { items[i] : i \in 1..Len(items) }

\* lines 31-37 on the items: the comprehension keeps the items' order
FinalItemsMutFirstArrival(choose, best_subset, items) ==
    IF choose /\ best_subset # {}
    THEN LET kept == SelectSeq(items, LAMBDA k : k \in best_subset)
         IN  IF kept = <<>> THEN kept ELSE <<Head(kept)>>
    ELSE items

FinalItems(choose, best_subset, items) ==
    IF choose /\ best_subset # {}
    THEN SelectSeq(items, LAMBDA k : k \in best_subset)
    ELSE items

\* FedAVGServer._aggregate_worker_data run over the items in their order:
\* the running weighted sum and total dataset size
RECURSIVE SumInOrder(_)
SumInOrder(items) ==
    IF items = <<>> THEN [num |-> 0, den |-> 0]
    ELSE LET rest == SumInOrder(Tail(items))
             u == SvUpdate(Head(items))
         IN  [num |-> u.dataset_size * u.parameter + rest.num,
              den |-> u.dataset_size + rest.den]

AggregateInOrder(items) ==
    LET ws == SumInOrder(items)
        g == Gcd(ws.num, ws.den)
    IN  IF ws.den = 0 THEN [ok |-> FALSE, num |-> 0, den |-> 0]
        ELSE [ok |-> TRUE, num |-> ws.num \div g, den |-> ws.den \div g]

NoOrderInput == [choose |-> FALSE, best |-> {}, items |-> <<>>]
NoOrderOutput == [done |-> FALSE, result |-> [ok |-> FALSE, num |-> 0, den |-> 0]]

OrderIdle ==
    /\ ord_in = NoOrderInput
    /\ ord_out = NoOrderOutput

OrderInit ==
    /\ ord_in \in [choose : BOOLEAN, best : SUBSET SvWorkerIds, items : Arrivals]
    /\ ord_out = NoOrderOutput

\* lines 31-39 for the round
OrderAggregate ==
    /\ ~ord_out.done
    /\ ord_out' =
          [done |-> TRUE,
           result |-> AggregateInOrder(
                         FinalItems(ord_in.choose, ord_in.best, ord_in.items))]
    /\ UNCHANGED ord_in
    /\ OrderFrame

(***************************************************************************)
(* A worker's outgoing update: worker/fed_avg_worker.py and                *)
(* worker/fed_dropout_avg_worker.py.  Parameters are vectors of ParamLen   *)
(* elements; the mask is the outcome of torch.bernoulli, one 0 or 1 per    *)
(* element.                                                                *)
(***************************************************************************)
ParamLen == 2
MaxParamValue == 1

ParamVectors == [1..ParamLen -> 0..MaxParamValue]
Masks == [1..ParamLen -> {0, 1}]
ZeroVector == [i \in 1..ParamLen |-> 0]

WorkerClasses == {"FedAVGWorker", "FedDropoutAvgWorker"}

\* sent_data: the keys it has and their values
NoSentData == [keys |-> {}, parameter |-> ZeroVector,
               parameter_diff |-> ZeroVector, dataset_size |-> 0]

\* ModelCache.get_parameter_diff: the new parameters against the cached
GetParameterDiff(parameter, cache) ==
    [i \in 1..ParamLen |-> parameter[i] - cache[i]]

\* AggregationWorker._get_sent_data: the trainer's parameters
BaseSentData(parameter) ==
    [NoSentData EXCEPT !.keys = {"parameter"}, !.parameter = parameter]

\* FedAVGWorker._get_sent_data, lines 56-59
FedAvgSentData(parameter) ==
    [BaseSentData(parameter) EXCEPT !.keys = @ \cup {"dataset_size"},
                                    !.dataset_size = DatasetSize(0)]

\* FedDropoutAvgWorker._get_sent_data, lines 16-27: parameter[k] = v * weight
DropoutSentData(parameter, mask) ==
    [FedAvgSentData(parameter) EXCEPT
        !.parameter = [i \in 1..ParamLen |-> @[i] * mask[i]]]

\* FedAVGWorker._aggretation, lines 48-51
AggretationData(flag, sent_data, cache) ==
    IF flag
    THEN [sent_data EXCEPT
            !.keys = (@ \ {"parameter"}) \cup {"parameter_diff"},
            !.parameter = ZeroVector,
            !.parameter_diff = GetParameterDiff(sent_data.parameter, cache)]
    ELSE sent_data

SendIdle ==
    /\ snd_in = [class |-> "FedAVGWorker", parameter |-> ZeroVector,
                 cache |-> ZeroVector, mask |-> ZeroVector]
    /\ snd_pc = "idle"
    /\ snd_flag = TRUE
    /\ snd_data = NoSentData
    /\ snd_msg = NoSentData

\* line 11 of fed_avg_worker.py: _send_parameter_diff = True
SendInit ==
    /\ snd_in \in [class : WorkerClasses, parameter : ParamVectors,
                   cache : ParamVectors, mask : Masks]
    /\ snd_pc = "trained"
    /\ snd_flag = TRUE
    /\ snd_data = NoSentData
    /\ snd_msg = NoSentData

\* _get_sent_data of the worker's class; the dropout worker's line 15 sets
\* _send_parameter_diff = False
SendGetSentData ==
    /\ snd_pc = "trained"
    /\ IF snd_in.class = "FedDropoutAvgWorker"
       THEN /\ snd_flag' = FALSE
            /\ snd_data' = DropoutSentData(snd_in.parameter, snd_in.mask)
       ELSE /\ UNCHANGED snd_flag
            /\ snd_data' = FedAvgSentData(snd_in.parameter)
    /\ snd_pc' = "got_sent_data"
    /\ UNCHANGED <<snd_in, snd_msg>>
    /\ SendFrame

\* _aggretation, lines 47-53: send_data_to_server(sent_data)
SendAggretation ==
    /\ snd_pc = "got_sent_data"
    /\ snd_msg' = AggretationData(snd_flag, snd_data, snd_in.cache)
    /\ snd_data' = AggretationData(snd_flag, snd_data, snd_in.cache)
    /\ snd_pc' = "sent"
    /\ UNCHANGED <<snd_in, snd_flag>>
    /\ SendFrame

SendNext ==
    \/ SendGetSentData
    \/ SendAggretation

(***************************************************************************)
(* training.py: start_executors, lines 25-69, for one execution unit.      *)
(* Role 0 is the server, when the unit hosts it; roles 1..n are workers.   *)
(***************************************************************************)
MaxUnitWorkers == 2
MaxUnitRounds == 2

ServerClasses == {"FedAVGServer", "MultiRoundShapleyValueServer"}

\* the server when its role has finished: its class, whether
\* _aggregate_worker_data ever built the estimator (sv_algorithm is None
\* until then), and its final round number
UnitServers ==
    [class : ServerClasses, estimator_used : BOOLEAN,
     round_number : 1..MaxUnitRounds]

NoUnitServer == [class |-> "FedAVGServer", estimator_used |-> FALSE,
                 round_number |-> 1]

UnitInputs ==
    [has_server : {TRUE}, server : UnitServers, workers : 0..MaxUnitWorkers]
    \cup
    [has_server : {FALSE}, server : {NoUnitServer}, workers : 1..MaxUnitWorkers]

\* workers, lines 32-54
UnitRoleIds(in) == (IF in.has_server THEN {0} ELSE {}) \cup 1..in.workers

\* server.performance_stat: one entry per round
PerformanceStat(server) ==
    [r \in 1..server.round_number |-> [k \in {"acc"} |-> r]]

\* server.sv_algorithm.shapley_values
ShapleyValues(server) ==
    [r \in 1..server.round_number |-> TaskSvTable[1]]

NoUnitResult == [kind |-> "none", res |-> EmptyDict]

UnitIdle ==
    /\ unit_in = [has_server |-> FALSE, server |-> NoUnitServer, workers |-> 1]
    /\ unit_roles = EmptyDict
    /\ unit_pc = "idle"
    /\ unit_res = NoUnitResult

\* line 57: every role is spawned
UnitInit ==
    /\ unit_in \in UnitInputs
    /\ unit_roles = [r \in UnitRoleIds(unit_in) |-> "running"]
    /\ unit_pc = "joinall"
    /\ unit_res = NoUnitResult

\* a role's start() returns
RoleFinish(r) ==
    /\ unit_pc = "joinall"
    /\ r \in DOMAIN unit_roles
    /\ unit_roles[r] = "running"
    /\ unit_roles' = [unit_roles EXCEPT ![r] = "finished"]
    /\ UNCHANGED <<unit_in, unit_pc, unit_res>>
    /\ UnitFrame

\* a role's start() raises: a transport or a local-trainer error
RoleFail(r) ==
    /\ unit_pc = "joinall"
    /\ r \in DOMAIN unit_roles
    /\ unit_roles[r] = "running"
    /\ unit_roles' = [unit_roles EXCEPT ![r] = "failed"]
    /\ UNCHANGED <<unit_in, unit_pc, unit_res>>
    /\ UnitFrame

\* line 57: gevent.joinall(..., raise_error=True) raises the error of a
\* role that failed and otherwise returns when every role is done
JoinAllMutIgnoresErrors(roles) ==
    IF \A r \in DOMAIN roles : roles[r] # "running" THEN "done" ELSE "waiting"

JoinAll(roles) ==
    IF \E r \in DOMAIN roles : roles[r] = "failed" THEN "raised"
    ELSE IF \A r \in DOMAIN roles : roles[r] = "finished" THEN "done"
    ELSE "waiting"

UnitJoin ==
    /\ unit_pc = "joinall"
    /\ JoinAll(unit_roles) # "waiting"
    /\ unit_pc' = IF JoinAll(unit_roles) = "done" THEN "assemble" ELSE "raised"
    /\ UNCHANGED <<unit_in, unit_roles, unit_res>>
    /\ UnitFrame

\* lines 60-69: res of the unit.  hasattr(server, "sv_algorithm") holds for
\* a MultiRoundShapleyValueServer also while the attribute is None, and
\* None has no attribute shapley_values
AssembleResult(in) ==
    IF ~in.has_server THEN [kind |-> "returned", res |-> EmptyDict]
    ELSE IF in.server.class = "MultiRoundShapleyValueServer"
         THEN IF in.server.estimator_used
              THEN [kind |-> "returned",
                    res |-> DictUpdate(
                               [k \in {"sv"} |-> ShapleyValues(in.server)],
                               PerformanceStat(in.server)[in.server.round_number])]
              ELSE [kind |-> "AttributeError", res |-> EmptyDict]
         ELSE [kind |-> "returned",
               res |-> PerformanceStat(in.server)[in.server.round_number]]

UnitAssemble ==
    /\ unit_pc = "assemble"
    /\ unit_res' = AssembleResult(unit_in)
    /\ unit_pc' = IF AssembleResult(unit_in).kind = "returned"
                  THEN "returned" ELSE "raised"
    /\ UNCHANGED <<unit_in, unit_roles>>
    /\ UnitFrame

UnitNext ==
    \/ \E r \in 0..MaxUnitWorkers : RoleFinish(r)
    \/ \E r \in 0..MaxUnitWorkers : RoleFail(r)
    \/ UnitJoin
    \/ UnitAssemble

(***************************************************************************)
(* training.py: the placement of a task's roles, train lines 90-110,       *)
(* process_initializer lines 19-22 and start_executors lines 28-54.        *)
(***************************************************************************)
MaxPlaceProcs == 2
PlaceWorkers == 3

PlaceWorkerIds == 0..(PlaceWorkers - 1)

\* algorithm_factory.get_worker_config: the worker map partitions the
\* workers over the process indices 0..n-1
PlaceWorkerMaps ==
    UNION { { [p \in 0..(n - 1) |-> {w \in PlaceWorkerIds : f[w] = p}] :
                f \in [PlaceWorkerIds -> 0..(n - 1)] } : n \in 1..MaxPlaceProcs }

\* lines 92-93: the task's topology and device lock
TaskTopology == "topology"
TaskDeviceLock == "device_lock"

NoPlacePool == [created |-> FALSE, device_lock |-> "none", topology |-> "none",
                execs |-> <<>>]

PlaceIdle ==
    /\ place_in = [worker_map |-> EmptyDict, server_config |-> FALSE]
    /\ place_pc = "idle"
    /\ place_next = 0
    /\ place_pool = NoPlacePool
    /\ place_units = EmptyDict

\* line 90: worker_config = get_worker_config(...)
PlaceInit ==
    /\ place_in \in [worker_map : PlaceWorkerMaps, server_config : BOOLEAN]
    /\ place_pc = "setup"
    /\ place_next = 0
    /\ place_pool = NoPlacePool
    /\ place_units = EmptyDict

\* lines 92-99: the pool's initializer gets the task's lock and topology
PlaceSetup ==
    /\ place_pc = "setup"
    /\ place_pool' = [created |-> TRUE, device_lock |-> TaskDeviceLock,
                      topology |-> TaskTopology, execs |-> <<>>]
    /\ place_pc' = "exec"
    /\ UNCHANGED <<place_in, place_next, place_units>>
    /\ PlaceFrame

\* lines 102-104: the server_config handed to the unit of process_idx
ServerConfigForMutEveryUnit(process_idx, server_config) == server_config

ServerConfigFor(process_idx, server_config) ==
    IF process_idx = 0 THEN server_config ELSE FALSE

\* lines 101-110: one process_pool.exec per entry of the worker map
PlaceExec ==
    /\ place_pc = "exec"
    /\ place_next \in DOMAIN place_in.worker_map
    /\ place_pool' =
          [place_pool EXCEPT !.execs =
              Append(@, [process_idx |-> place_next,
                         worker_configs |-> place_in.worker_map[place_next],
                         server_config |->
                            ServerConfigFor(place_next,
                                            place_in.server_config)])]
    /\ place_next' = place_next + 1
    /\ UNCHANGED <<place_in, place_pc, place_units>>
    /\ PlaceFrame

\* the loop of line 101 ends
PlaceExecEnd ==
    /\ place_pc = "exec"
    /\ place_next \notin DOMAIN place_in.worker_map
    /\ place_pc' = "scheduled"
    /\ UNCHANGED <<place_in, place_next, place_pool, place_units>>
    /\ PlaceFrame

\* a pool process runs a call handed to exec: process_initializer, lines
\* 19-22, has stored the initargs, and start_executors, lines 28-54, creates
\* the workers of worker_configs and, if server_config is given, the server
PlaceUnitStart(i) ==
    /\ i \in 1..Len(place_pool.execs)
    /\ i \notin DOMAIN place_units
    /\ place_units' =
          DictUpdate(place_units,
             [k \in {i} |->
                 [process_idx |-> place_pool.execs[i].process_idx,
                  device_lock |-> place_pool.device_lock,
                  topology |-> place_pool.topology,
                  workers |-> place_pool.execs[i].worker_configs,
                  server |-> place_pool.execs[i].server_config]])
    /\ UNCHANGED <<place_in, place_pc, place_next, place_pool>>
    /\ PlaceFrame

PlaceNext ==
    \/ PlaceSetup
    \/ PlaceExec
    \/ PlaceExecEnd
    \/ \E i \in 1..MaxPlaceProcs : PlaceUnitStart(i)

(***************************************************************************)
(* Specifications.                                                         *)
(***************************************************************************)
TaskNext ==
    \/ TrainBegin
    \/ TrainCheck
    \/ TrainSetup
    \/ TrainExec
    \/ TrainStop
    \/ TrainRegister
    \/ \E c \in Calls, u \in Procs : UnitFinish(c, u)
    \/ \E c \in Callers : GtrLookup(c)
    \/ \E c \in Callers : GtrWait(c)
    \/ \E c \in Callers : GtrPop(c)
    \/ \E c \in Callers : GtrStop(c)
    \/ \E c \in Callers : GtrReturn(c)

\* the orchestration layer: train, the process pools, get_training_result
InitTask == PlaceIdle /\ UnitIdle /\ SendIdle /\ OrderIdle /\ ProtoIdle /\ SvIdle /\ TaskInit /\ RemapIdle /\ EpInit

SpecTask ==
    /\ InitTask
    /\ [][TaskNext]_vars

RemapNext ==
    \/ RemapApply

\* the id remapping of get_training_result on drawn inputs
InitRemap == PlaceIdle /\ UnitIdle /\ SendIdle /\ OrderIdle /\ ProtoIdle /\ SvIdle /\ TaskInit /\ RemapInit /\ EpInit

SpecRemap ==
    /\ InitRemap
    /\ [][RemapNext]_vars

InitEndpoint == PlaceIdle /\ UnitIdle /\ SendIdle /\ OrderIdle /\ ProtoIdle /\ SvIdle /\ TaskInit /\ RemapIdle /\ EpInit

\* the server endpoint's broadcast against the clients' gets
SpecEndpoint ==
    /\ InitEndpoint
    /\ [][EpNext]_vars

InitShapley == PlaceIdle /\ UnitIdle /\ SendIdle /\ OrderIdle /\ ProtoIdle /\ SvInit /\ TaskInit /\ RemapIdle /\ EpInit

\* the rounds of MultiRoundShapleyValueServer._aggregate_worker_data
SpecShapley ==
    /\ InitShapley
    /\ [][SvNext]_vars

Init == PlaceIdle /\ UnitIdle /\ SendIdle /\ OrderIdle /\ ProtoInit /\ SvIdle /\ TaskInit /\ RemapIdle /\ EpInit

\* the round protocol between the workers and the server
Spec ==
    /\ Init
    /\ [][Next]_vars

\* the final selection of _aggregate_worker_data on every table entry an
\* estimator may have recorded for the round
InitFinal ==
    /\ choose_best_subset \in BOOLEAN
    /\ \E best \in SUBSET SvWorkerIds :
          sv_algorithm = [is_none |-> FALSE, round_number |-> 1,
                          shapley_values_S |-> [r \in {1} |-> [w \in best |-> 0]]]
    /\ sv_worker_data \in SvWorkerData
    /\ sv_pc = "computed"
    /\ sv_eval = NoEval
    /\ sv_agg = NoAgg
    /\ sv_metric = NoMetricCall
    /\ PlaceIdle /\ UnitIdle /\ SendIdle /\ OrderIdle /\ ProtoIdle /\ TaskInit /\ RemapIdle /\ EpInit

SpecFinal ==
    /\ InitFinal
    /\ [][SvAggregateEnd]_vars

InitOrder ==
    PlaceIdle /\ UnitIdle /\ SendIdle /\ OrderInit /\ ProtoIdle /\ SvIdle /\ TaskInit /\ RemapIdle /\ EpInit

SpecOrder ==
    /\ InitOrder
    /\ [][OrderAggregate]_vars

InitSend ==
    PlaceIdle /\ UnitIdle /\ SendInit /\ OrderIdle /\ ProtoIdle /\ SvIdle /\ TaskInit /\ RemapIdle /\ EpInit

SpecSend ==
    /\ InitSend
    /\ [][SendNext]_vars

\* every role is scheduled again and again: a role that can take a step
\* eventually takes it
Fairness ==
    /\ \A w \in WorkerIds :
          /\ WF_vars(WorkerBeforeTraining(w))
          /\ WF_vars(WorkerGet(w))
          /\ WF_vars(WorkerSkipCount(w))
          /\ WF_vars(WorkerSkipSend(w))
          /\ WF_vars(WorkerLoad(w))
          /\ WF_vars(WorkerTrain(w))
          /\ WF_vars(WorkerSend(w))
          /\ WF_vars(ServerCollect(w))
    /\ WF_vars(ServerStart)
    /\ WF_vars(ServerBroadcast)
    /\ WF_vars(ServerTerminate)

\* the round protocol under fair scheduling of the roles
FairSpec ==
    /\ Init
    /\ [][Next]_vars
    /\ Fairness

InitPlace ==
    /\ PlaceInit /\ UnitIdle /\ SendIdle /\ OrderIdle /\ ProtoIdle
    /\ SvIdle /\ TaskInit /\ RemapIdle /\ EpInit

SpecPlace ==
    /\ InitPlace
    /\ [][PlaceNext]_vars

InitUnit ==
    /\ PlaceIdle /\ UnitInit /\ SendIdle /\ OrderIdle /\ ProtoIdle
    /\ SvIdle /\ TaskInit /\ RemapIdle /\ EpInit

SpecUnit ==
    /\ InitUnit
    /\ [][UnitNext]_vars

(***************************************************************************)
(* Properties of the orchestration layer.                                  *)
(***************************************************************************)
\* the caller's step is the return of None at line 126
TimedOut(c) ==
    /\ gtr_pc[c] = "wait"
    /\ gtr_pc'[c] = "idle"

\* the caller leaves line 125 while the pool of its task is unfinished
LeavesWaitUnfinished(c) ==
    /\ gtr_pc[c] = "wait"
    /\ gtr_pc'[c] # "wait"
    /\ ~PoolDone(gtr_local[c].task.process_pool)

C4_PendingWhileUnfinished ==
    \A t \in IssuedIds :
        ~PoolDone(t) =>
            /\ t \in DOMAIN tasks
            /\ tasks[t] = issued[t]
            /\ pools[t].stops = 0
            /\ pops[t] = 0

C4_TimeoutStep ==
    \A c \in Callers :
        /\ LeavesWaitUnfinished(c) => TimedOut(c)
        /\ TimedOut(c) =>
              /\ gtr_ret'[c] = RetNone
              /\ tasks' = tasks
              /\ pools' = pools
              /\ pops' = pops
              /\ issued' = issued

\* C4: get_training_result on a task whose pool has not finished returns
\* None and changes nothing: the task stays pending with the same pool,
\* practitioner ids and config, its pool is not stopped, and this holds at
\* every poll until the pool finishes.
C4_TimeoutHasNoEffect ==
    /\ [] C4_PendingWhileUnfinished
    /\ [][C4_TimeoutStep]_vars

\* a caller has polled an unfinished task, got None, and the task is there
C4_Witness ==
    \E c \in Callers :
        /\ gtr_pc[c] = "idle"
        /\ gtr_ret[c] = RetNone
        /\ gtr_task[c] \in DOMAIN tasks
        /\ ~PoolDone(gtr_task[c])
        /\ pools[gtr_task[c]].scheduled = WorkerMapKeys

\* C5: a finished non-blocking task is removed from the pending set exactly
\* once and its pool is stopped exactly once, and no caller of
\* get_training_result fails because another caller removed the task
\* between its lookup (line 123) and its removal (line 127).
C5_RemovedOnceNoCallerFails ==
    /\ \A t \in Calls : pops[t] <= 1 /\ pools[t].stops <= 1
    /\ \A c \in Callers : gtr_ret[c].kind # "KeyError@pop"

\* the call of train has returned
TrainReturned == train_pc = "returned"

\* nothing of call c exists
NothingCreated(c) ==
    /\ ~topology[c]
    /\ ~device_lock[c]
    /\ pools[c] = NoPool
    /\ c \notin DOMAIN tasks
    /\ issued[c] = NoTaskRecord

\* C6: a non-blocking train returns a task id that is registered with its
\* pool, practitioner ids and config after every unit was scheduled; a
\* blocking train returns None only after its pool was stopped with every
\* unit finished and registers nothing; the pending set holds exactly the
\* registered tasks whose retrieval (the pop at line 127) has not happened.
C6_TrainRegistersNonBlockingOnly ==
    /\ TrainReturned => (train_call.non_blocking <=> train_ret.kind = "id")
    /\ (TrainReturned /\ train_call.non_blocking) =>
          /\ train_ret.task_id = train_call.task_id
          /\ train_ret.task_id # NoTask
          /\ pools[ncalls].scheduled = WorkerMapKeys
          /\ pools[ncalls].created
          /\ \/ pops[ncalls] > 0
             \/ /\ train_ret.task_id \in DOMAIN tasks
                /\ tasks[train_ret.task_id] =
                      [process_pool |-> ncalls,
                       practitioner_ids |-> train_call.practitioner_ids,
                       config |-> TaskConfig]
    /\ (TrainReturned /\ ~train_call.non_blocking) =>
          /\ train_ret.task_id = NoTask
          /\ pools[ncalls].scheduled = WorkerMapKeys
          /\ PoolDone(ncalls)
          /\ pools[ncalls].stops = 1
          /\ ncalls \notin DOMAIN tasks
          /\ issued[ncalls] = NoTaskRecord
    /\ DOMAIN tasks = {t \in IssuedIds : pops[t] = 0}
    /\ \A t \in IssuedIds : t < ncalls \/ TrainReturned

\* a non-blocking train with practitioner ids has returned its task id
C6_Witness ==
    /\ TrainReturned
    /\ train_ret.kind = "id"
    /\ ~train_call.practitioner_ids.is_none
    /\ train_ret.task_id \in DOMAIN tasks
    /\ \E u \in Procs : u \notin pools[ncalls].finished

\* the practitioner id with exactly i smaller ones in ids
IthSmallest(ids, i) ==
    CHOOSE p \in ids : Cardinality({q \in ids : q < p}) = i

\* C7: with practitioner ids, every round of the returned Shapley table
\* maps the i-th smallest practitioner id to the value of worker id i
\* (as far as zip pairs them: all of them when there are worker_number
\* ids), every other key is returned unchanged, and without practitioner
\* ids the merged result is returned as is.
C7_IdRemapping ==
    remap_out.done =>
        LET tmp == remap_in.tmp_stats
            ids == remap_in.practitioner_ids.ids
            n == remap_in.worker_number
            m == Min(Cardinality(ids), n)
            stats == remap_out.stats
        IN  IF remap_in.practitioner_ids.is_none THEN stats = tmp
            ELSE /\ DOMAIN stats = DOMAIN tmp
                 /\ \A k \in DOMAIN tmp \ {"sv"} : stats[k] = tmp[k]
                 /\ "sv" \in DOMAIN tmp =>
                       /\ DOMAIN stats["sv"] = DOMAIN tmp["sv"]
                       /\ \A round \in DOMAIN tmp["sv"] :
                             /\ DOMAIN stats["sv"][round] =
                                   {IthSmallest(ids, i) : i \in 0..(m - 1)}
                             /\ Cardinality(ids) = n =>
                                   DOMAIN stats["sv"][round] = ids
                             /\ \A i \in 0..(m - 1) :
                                   stats["sv"][round][IthSmallest(ids, i)] =
                                       tmp["sv"][round][i]

\* practitioner ids {7, 3, 9} and three workers with distinct values
C7_Witness ==
    /\ remap_out.done
    /\ remap_in.practitioner_ids = SomePids({7, 3, 9})
    /\ remap_in.worker_number = 3
    /\ "sv" \in DOMAIN remap_in.tmp_stats
    /\ LET tb == remap_in.tmp_stats["sv"][1]
       IN  /\ tb[0] # tb[1] /\ tb[1] # tb[2] /\ tb[0] # tb[2]
           /\ remap_out.stats["sv"][1] =
                 [p \in {3, 7, 9} |-> IF p = 3 THEN tb[0]
                                      ELSE IF p = 7 THEN tb[1] ELSE tb[2]]

C8_NothingStarted ==
    /\ (train_pc # "idle" /\ train_call.has_sysconf
            /\ train_call.open_max <= OpenFileLimit) =>
          /\ train_pc \in {"check", "raised"}
          /\ NothingCreated(ncalls)
    /\ train_pc = "raised" =>
          /\ train_ret.kind = "RuntimeError"
          /\ NothingCreated(ncalls)

C8_RaiseStep ==
    (train_pc = "check" /\ train_pc' = "raised") =>
        /\ tasks' = tasks
        /\ pools' = pools
        /\ topology' = topology
        /\ device_lock' = device_lock
        /\ issued' = issued

Addressed(worker_ids) ==
    {w \in WorkerIds : worker_ids.is_none \/ w \in worker_ids.ids}

C9_Counts ==
    /\ bcast.pc # "error"
    /\ bcast.pending \subseteq WorkerIds
    /\ \A w \in WorkerIds :
          /\ w \notin Addressed(bcast.worker_ids) => bcast.sends[w] = 0
          /\ bcast.sends[w] <= 1
          /\ bcast.pc = "done" =>
                (w \in Addressed(bcast.worker_ids) <=> bcast.sends[w] = 1)

C9_MailboxStep ==
    \A w \in WorkerIds :
        /\ to_worker'[w] # to_worker[w] =>
              \/ /\ to_worker[w] # <<>>
                 /\ to_worker'[w] = Tail(to_worker[w])
                 /\ bcast' = bcast
              \/ /\ bcast.pc = "loop"
                 /\ w \in Addressed(bcast.worker_ids)
                 /\ to_worker'[w] = Append(to_worker[w], bcast.data)
                 /\ bcast'.sends[w] = bcast.sends[w] + 1
                 /\ \A v \in WorkerIds \ {w} : to_worker'[v] = to_worker[v]
        /\ (bcast.pc = "loop" /\ bcast'.pc = "loop"
                /\ bcast'.sends[w] # bcast.sends[w]) =>
              to_worker'[w] = Append(to_worker[w], bcast.data)

\* C9: broadcast(data, ids) sends the same data exactly once to every
\* worker id of ids that lies in 0..worker_num-1 (to every worker when ids
\* is None): each such mailbox gains one copy, no other mailbox changes,
\* and an id outside the range causes neither a send nor an error.
C9_BroadcastSendsOncePerAddressed ==
    /\ [] C9_Counts
    /\ [][C9_MailboxStep]_vars

\* a broadcast to worker 0 and to an id out of range has finished
C9_Witness ==
    /\ bcast.pc = "done"
    /\ bcast.worker_ids = SomePids({0, WorkerNum})
    /\ bcast.sends[0] = 1
    /\ bcast.sends[1] = 0
    /\ to_worker[0] # <<>>
    /\ to_worker[0][Len(to_worker[0])] = bcast.data

(***************************************************************************)
(* Properties of the Shapley-value server.                                 *)
(***************************************************************************)
\* the best subset the estimator recorded for its current round
BestSubset ==
    DOMAIN sv_algorithm.shapley_values_S[sv_algorithm.round_number]

\* C10: with choose_best_subset the base aggregation of a round receives
\* exactly the updates of the workers of the (non-empty) best subset the
\* estimator recorded for the current round, whose table entry is
\* non-empty; without it the base aggregation receives the full update set.
C10_BestSubsetAggregated ==
    sv_pc = "aggregated" =>
        /\ (choose_best_subset /\ BestSubset # {}) =>
              /\ DOMAIN sv_agg.input = BestSubset \cap DOMAIN sv_worker_data
              /\ \A w \in DOMAIN sv_agg.input :
                    sv_agg.input[w] = sv_worker_data[w]
              /\ sv_algorithm.shapley_values_S[sv_algorithm.round_number]
                    # EmptyDict
        /\ ~choose_best_subset => sv_agg.input = sv_worker_data
        /\ sv_agg.result = BaseAggregate(sv_agg.input)

\* all three workers sent an update and a 2-worker subset that strictly
\* outperforms the full set was aggregated
C10_Witness ==
    /\ sv_pc = "aggregated"
    /\ choose_best_subset
    /\ DOMAIN sv_worker_data = SvWorkerIds
    /\ Cardinality(BestSubset) = 2
    /\ sv_eval.full_score >= 0
    /\ sv_eval.best_score > sv_eval.full_score
    /\ DOMAIN sv_agg.input = BestSubset
    /\ sv_algorithm.round_number = 2


(***************************************************************************)
(* Properties of the round protocol.                                       *)
(***************************************************************************)
C1_LogShape ==
    /\ Len(s_log) <= config.round + 1
    /\ \A i \in 1..Len(s_log) :
          s_log[i] = IF i <= config.round THEN "result" ELSE "end_training"
    /\ s_round = Cardinality({i \in 1..Len(s_log) : s_log[i] = "result"})
    /\ s_pc = "terminated" <=> Len(s_log) = config.round + 1

C1_NothingBehindTermination ==
    \A w \in WorkerIds :
       /\ \A i \in 1..Len(to_worker[w]) :
             to_worker[w][i].kind = "end_training" => i = Len(to_worker[w])
       /\ w_got_term[w] =>
             /\ to_worker[w] = <<>>
             /\ w_result[w] = EndTraining
             /\ w_pc[w] \in {"got", "stopped"}

C1_AfterTerminationStep ==
    \A w \in WorkerIds :
       w_got_term[w] =>
          /\ w_applied'[w] = w_applied[w]
          /\ w_param'[w] = w_param[w]
          /\ w_cache'[w] = w_cache[w]
          /\ w_result'[w] = w_result[w]
          /\ to_worker'[w] = to_worker[w]

\* C1: for a round count R the server's broadcasts are R non-terminal
\* results and then the termination message; the server is terminated
\* exactly when that last broadcast is made; nothing is queued to a worker
\* behind the termination message, and a worker that has received it never
\* receives or applies another result.
C1_TerminationBoundary ==
    /\ [](C1_LogShape /\ C1_NothingBehindTermination)
    /\ [][C1_AfterTerminationStep]_vars

C1_Witness ==
    /\ s_pc = "terminated"
    /\ config.round = MaxRound
    /\ \A w \in WorkerIds : w_pc[w] = "stopped" /\ w_applied[w] >= 1

C2_FirstRealResult ==
    \A w \in WorkerIds :
       (/\ w_pc[w] = "got"
        /\ w_result[w].kind = "result"
        /\ w_from[w] = "before_training") =>
          /\ w_applied[w] = 0
          /\ w_round[w] = w_skips[w] + 1

C2_CounterStep ==
    \A w \in WorkerIds :
       w_round'[w] =
          IF w_pc[w] = "got" /\ w_result[w].kind = "none" /\ w_pc'[w] # w_pc[w]
          THEN w_round[w] + 1
          ELSE w_round[w]

\* C2: a worker that has received k skip signals and then its first real
\* result has the round counter k + 1 when load_result_from_server is about
\* to apply that result; handling a skip signal adds exactly one to the
\* counter and no other step of get_result_from_server changes it.
C2_SkipAccounting ==
    /\ [] C2_FirstRealResult
    /\ [][C2_CounterStep]_vars

C2_Witness ==
    \E w \in WorkerIds :
       /\ w_pc[w] = "got"
       /\ w_result[w].kind = "result"
       /\ w_from[w] = "before_training"
       /\ w_skips[w] >= 1
       /\ w_round[w] = w_skips[w] + 1

C3_StoppedIffTerminated ==
    \A w \in WorkerIds :
       /\ w_pc[w] # "ended"
       /\ w_pc[w] = "stopped" <=> w_stopped[w]
       /\ w_got_term[w] <=>
             \/ w_pc[w] = "stopped"
             \/ w_pc[w] = "got" /\ w_result[w].kind = "end_training"

C3_StopStep ==
    \A w \in WorkerIds :
       (w_pc'[w] \in {"stopped", "ended"} /\ w_pc'[w] # w_pc[w]) =>
          /\ w_pc[w] = "got"
          /\ w_result[w].kind = "end_training"
          /\ w_stopped'[w]
          /\ w_pc'[w] = "stopped"

FinalAggregationCalled ==
    \/ sv_pc = "aggregated"
    \/ sv_pc = "error" /\ ~sv_metric.raised

C12_EmptySubsetFails ==
    (sv_metric.called /\ sv_metric.subset_empty) =>
        /\ sv_metric.raised
        /\ ~sv_metric.aggregated_empty
        /\ ~sv_metric.returned
        /\ sv_pc = "error"

C12_ErrorStep ==
    sv_pc' = "error" => (sv_eval' = sv_eval /\ sv_agg' = sv_agg)

\* C12: a subset metric evaluation whose subset has no update in the
\* round's worker_data fails with an error; the base aggregation is not run
\* on the empty input and no metric value reaches the estimator.
C12_AggregationInputMissing ==
    /\ [] C12_EmptySubsetFails
    /\ [][C12_ErrorStep]_vars

C12_Witness ==
    /\ sv_pc = "error"
    /\ sv_metric.called
    /\ sv_metric.subset_empty
    /\ sv_metric.raised
    /\ sv_algorithm.round_number = 2
    /\ sv_eval.best # {}

(***************************************************************************)
(* Properties of the round protocol, continued.                            *)
(***************************************************************************)
\* a worker that waits for the round's result with an empty mailbox has its
\* message of the round, update or skip notification, sent or observed
C13_WaitingWorkerCounted ==
    \A w \in WorkerIds :
       /\ (s_pc = "collect" /\ w_pc[w] = "await" /\ to_worker[w] = <<>>) =>
             (to_server[w] # <<>> \/ w \in DOMAIN s_collected)
       /\ w \in DOMAIN s_collected =>
             s_collected[w].kind \in {"none", "update"}

\* the aggregate of the collected messages that are real updates
C13_UpdatesOnly ==
    LET ups == {w \in DOMAIN s_collected : s_collected[w].kind # "none"}
        data == [w \in ups |->
                    [dataset_size |-> s_collected[w].dataset_size,
                     parameter |-> s_param + s_collected[w].parameter_diff]]
        r == BaseAggregate(data)
    IN  IF ups = {} THEN s_param ELSE r.num \div r.den

C13_BarrierStep ==
    (s_pc = "collect" /\ s_log' # s_log) =>
        /\ DOMAIN s_collected = WorkerIds
        /\ s_collected' = EmptyDict
        /\ s_pc' = "collect" =>
              /\ s_param' = C13_UpdatesOnly
              /\ s_round' = s_round + 1

\* C13: the server aggregates and broadcasts only when it has observed one
\* message, update or skip notification, of every worker; the aggregate is
\* that of the real updates alone, and the round advances also when some
\* of the messages are skip notifications.
C13_CollectionBarrier ==
    /\ [] C13_WaitingWorkerCounted
    /\ [][C13_BarrierStep]_vars

C13_Witness ==
    /\ s_pc = "collect"
    /\ s_round = 2
    /\ s_collected = EmptyDict
    /\ s_param >= 1
    /\ \E w \in WorkerIds : w_skips[w] >= 1 /\ w_applied[w] = 0

\* C14: the aggregate of a round is the same for every order in which the
\* same workers' updates arrived at the server.
C14_RoundDeterminism ==
    ord_out.done =>
        \A other \in Arrivals :
           ItemKeys(other) = ItemKeys(ord_in.items) =>
              ord_out.result =
                 AggregateInOrder(FinalItems(ord_in.choose, ord_in.best, other))

C14_Witness ==
    /\ ord_out.done
    /\ ord_out.result.ok
    /\ ord_in.choose
    /\ Len(ord_in.items) = SvWorkerNum
    /\ ord_in.items[1] > ord_in.items[2]
    /\ Cardinality(ord_in.best) = 2

C16_GatedWorker ==
    config.distribute_init_parameters =>
        \A w \in WorkerIds :
           /\ w_pc[w] \in {"train", "send"} => w_applied[w] >= 1
           /\ \A i \in 1..Len(to_server[w]) :
                 to_server[w][i].kind = "update" => w_applied[w] >= 1
           /\ (w \in DOMAIN s_collected /\ s_collected[w].kind = "update") =>
                 w_applied[w] >= 1

C16_FirstStep ==
    \A w \in WorkerIds :
       (w_pc[w] = "start" /\ w_pc'[w] # "start") =>
          /\ to_worker'[w] = to_worker[w]
          /\ w_applied'[w] = 0
          /\ w_pc'[w] = IF config.distribute_init_parameters
                        THEN "await" ELSE "train"

\* C16: with distribute_init_parameters a worker neither trains nor sends a
\* real update before it has received and applied a result of the server;
\* without it the worker's first step enters training and receives nothing.
C16_InitialParameterGate ==
    /\ [] C16_GatedWorker
    /\ [][C16_FirstStep]_vars

C16_Witness ==
    /\ config.distribute_init_parameters
    /\ \E w \in WorkerIds :
          /\ w_pc[w] = "send"
          /\ w_applied[w] = 1
    /\ \E w \in WorkerIds :
          /\ w_pc[w] = "await"
          /\ w_applied[w] = 0
          /\ w_skips[w] >= 1

C17_BaselineIsLastResult ==
    \A w \in WorkerIds :
       (w_pc[w] \in {"train", "send"} /\ w_applied[w] >= 1) =>
          /\ w_result[w].kind = "result"
          /\ w_cache[w] = w_result[w].parameter

C17_BaselineStep ==
    \A w \in WorkerIds :
       /\ (w_pc[w] = "got" /\ w_result[w].kind = "result"
                           /\ w_pc'[w] # w_pc[w]) =>
             /\ w_param'[w] = w_result[w].parameter
             /\ w_cache'[w] = w_result[w].parameter
       /\ ~(w_pc[w] = "got" /\ w_result[w].kind = "result") =>
             w_cache'[w] = w_cache[w]
       /\ (w_pc[w] \in {"got", "skip_send"}
              /\ w_result[w].kind \in {"none", "end_training"}) =>
             w_param'[w] = w_param[w]
       /\ (w_pc[w] = "send" /\ w_pc'[w] # "send" /\ w_applied[w] >= 1) =>
             to_server'[w] =
                Append(to_server[w],
                       UpdateMsg(w_param[w] - w_result[w].parameter,
                                 DatasetSize(w)))

\* C17: applying a non-terminal result loads and caches its parameters, so
\* the baseline of every later parameter_diff is the parameters of the most
\* recent non-terminal result received; skip signals and the termination
\* message change neither the parameters nor the cached baseline.
C17_BaselineConsistency ==
    /\ [] C17_BaselineIsLastResult
    /\ [][C17_BaselineStep]_vars

C17_Witness ==
    \E w \in WorkerIds :
       /\ w_pc[w] = "send"
       /\ w_applied[w] >= 2
       /\ w_cache[w] >= 1
       /\ w_param[w] > w_cache[w]

C19_AllEnded ==
    /\ s_pc = "terminated"
    /\ \A w \in WorkerIds :
          /\ w_pc[w] = "stopped"
          /\ to_worker[w] = <<>>
          /\ to_server[w] = <<>>

\* C19: under fair scheduling every worker, skipped or not, eventually is
\* stopped and the server eventually is terminated, with no message left
\* in a channel, and they stay so.
C19_GracefulTermination == <>[] C19_AllEnded

C19_Witness ==
    /\ C19_AllEnded
    /\ config.round = MaxRound
    /\ \E w \in WorkerIds : w_applied[w] = 0 /\ w_skips[w] = MaxRound
    /\ \E w \in WorkerIds : w_applied[w] = MaxRound

\* the messages of worker w the server has not yet answered
C21_Outstanding(w) ==
    Len(to_server[w]) + (IF w \in DOMAIN s_collected THEN 1 ELSE 0)

C21_OneOutstanding ==
    \A w \in WorkerIds :
       /\ C21_Outstanding(w) <= 1
       /\ w_pc[w] \in {"start", "got", "skip_send", "train", "send"} =>
             C21_Outstanding(w) = 0

C21_AlternationStep ==
    \A w \in WorkerIds :
       /\ Len(to_worker'[w]) < Len(to_worker[w]) =>
             /\ w_pc[w] = "await"
             /\ w_pc'[w] = "got"
             /\ to_server'[w] = to_server[w]
       /\ Len(to_server'[w]) > Len(to_server[w]) =>
             /\ w_pc[w] \in {"skip_send", "send"}
             /\ w_pc'[w] = "await"
             /\ Len(to_server'[w]) = Len(to_server[w]) + 1
             /\ w_pc[w] = "skip_send" =>
                   /\ to_server'[w] = Append(to_server[w], SkipUpdate)
                   /\ w_round[w] = w_skips[w] + 1
                   /\ ~w_stopped'[w]
             /\ w_pc[w] = "send" =>
                   to_server'[w][Len(to_server'[w])].kind = "update"
       /\ (w_pc'[w] = "await" /\ w_pc[w] \notin {"await", "start"}) =>
             Len(to_server'[w]) = Len(to_server[w]) + 1
       /\ (w_pc[w] = "got" /\ w_pc'[w] # "got") =>
             /\ to_server'[w] = to_server[w]
             /\ w_pc'[w] = IF w_result[w].kind = "none" THEN "skip_send"
                           ELSE IF w_result[w].kind = "result" THEN "train"
                           ELSE "stopped"

C15_UpdateShape ==
    snd_pc = "sent" =>
        /\ snd_msg.keys = {"parameter_diff", "dataset_size"}
        /\ snd_msg.dataset_size = DatasetSize(0)
        /\ LET diff == GetParameterDiff(snd_in.parameter, snd_in.cache)
           IN  snd_msg.parameter_diff =
                  IF snd_in.class = "FedDropoutAvgWorker"
                  THEN [i \in 1..ParamLen |-> diff[i] * snd_in.mask[i]]
                  ELSE diff

(***************************************************************************)
(* Properties of an execution unit.                                        *)
(***************************************************************************)
\* the units' results in some order: the server unit's among empty ones
C18_MergeIsServerResult ==
    \A i \in 1..NumProcs :
       MergeResults([j \in 1..NumProcs |->
                       IF j = i THEN unit_res.res ELSE EmptyDict])
          = unit_res.res

\* C18: a unit whose roles all finished returns: with the server, 'sv' (for
\* a server that has the sv_algorithm attribute, used or not) and the
\* performance stat of the server's final round; without it, the empty
\* result.  Merging it with the empty results of the other units gives it
\* back in every order.
C18_ResultAssembly ==
    /\ unit_pc = "raised" => \E r \in DOMAIN unit_roles : unit_roles[r] = "failed"
    /\ unit_pc = "returned" =>
          /\ unit_res.kind = "returned"
          /\ ~unit_in.has_server => unit_res.res = EmptyDict
          /\ unit_in.has_server =>
                /\ \A k \in DOMAIN PerformanceStat(unit_in.server)[
                                      unit_in.server.round_number] :
                      /\ k \in DOMAIN unit_res.res
                      /\ unit_res.res[k] =
                            PerformanceStat(unit_in.server)[
                               unit_in.server.round_number][k]
                /\ "sv" \in DOMAIN unit_res.res <=>
                      unit_in.server.class = "MultiRoundShapleyValueServer"
          /\ C18_MergeIsServerResult

\* C20: a unit's result is assembled and returned only when every role of
\* the unit has finished; once a role has failed the unit returns no
\* result and ends with the error.
C20_FailedUnitNoResult ==
    /\ unit_pc \in {"assemble", "returned"} =>
          \A r \in DOMAIN unit_roles : unit_roles[r] = "finished"
    /\ (\E r \in DOMAIN unit_roles : unit_roles[r] = "failed") =>
          /\ unit_pc \in {"joinall", "raised"}
          /\ unit_res = NoUnitResult

C20_Witness ==
    /\ unit_pc = "raised"
    /\ unit_in.has_server
    /\ unit_roles[0] = "finished"
    /\ \E r \in DOMAIN unit_roles : unit_roles[r] = "failed"
    /\ unit_res = NoUnitResult

(***************************************************************************)
(* Properties of the placement of roles.                                   *)
(***************************************************************************)
C22_AllStarted ==
    /\ place_pc = "scheduled"
    /\ DOMAIN place_units = 1..Len(place_pool.execs)

C22_UnitsOf(w) == {u \in DOMAIN place_units : w \in place_units[u].workers}

C22_ServerUnits == {u \in DOMAIN place_units : place_units[u].server}

\* C22: every worker of the worker map is started in at most one unit, and
\* in exactly one once all units run; the server is started only in the
\* unit of process index 0, and there exactly when a server is configured;
\* every process index is handed to the pool once; all units have the
\* task's device lock and topology.
C22_RolePlacement ==
    /\ \A i, j \in 1..Len(place_pool.execs) :
          place_pool.execs[i].process_idx = place_pool.execs[j].process_idx
             => i = j
    /\ \A w \in PlaceWorkerIds : Cardinality(C22_UnitsOf(w)) <= 1
    /\ \A u \in C22_ServerUnits :
          place_in.server_config /\ place_units[u].process_idx = 0
    /\ Cardinality(C22_ServerUnits) <= 1
    /\ \A u \in DOMAIN place_units :
          /\ place_units[u].device_lock = TaskDeviceLock
          /\ place_units[u].topology = TaskTopology
    /\ C22_AllStarted =>
          /\ Len(place_pool.execs) = Cardinality(DOMAIN place_in.worker_map)
          /\ \A w \in PlaceWorkerIds : Cardinality(C22_UnitsOf(w)) = 1
          /\ Cardinality(C22_ServerUnits) =
                IF place_in.server_config THEN 1 ELSE 0

C22_Witness ==
    /\ C22_AllStarted
    /\ place_in.server_config
    /\ Len(place_pool.execs) = MaxPlaceProcs
    /\ \A u \in DOMAIN place_units : place_units[u].workers # {}
    /\ Cardinality(C22_ServerUnits) = 1

====
